---------------------------- MODULE Spec2Model ----------------------------
(***************************************************************************)
(* A model of pm (jperkin/pm): the pkg_summary(5) ingestion pipeline       *)
(* (src/src/summary.rs), the sqlite3 metadata store (src/src/pmdb.rs) and  *)
(* the "pm update" orchestrator (src/src/update.rs).                       *)
(*                                                                         *)
(* Text.  A byte string is a sequence of byte symbols.  The symbols are    *)
(* "LF" (0x0A), "CR" (0x0D), "=", "-", "+", the digits, the letters, the   *)
(* two bytes "C3" "A9" of the UTF-8 encoding of U+00E9, and one symbol per *)
(* pkg_summary(5) variable name ("BUILD_DATE" stands for the bytes of that *)
(* name, which hold no line break, no '=' and no non-ASCII byte).          *)
(* String = sequence of symbols, Vec<T> = sequence, Option<T> = <<>> for   *)
(* None and <<x>> for Some(x).                                             *)
(***************************************************************************)
EXTENDS Integers, Sequences, FiniteSets, TLC

VARIABLES
    doc,        \* the bytes the collaborator will deliver (SummaryStream's input)
    pos,        \* how many bytes of doc have been written so far
    buf,        \* SummaryStream.buf
    entries,    \* SummaryStream.entries
    status,     \* "running", or "panicked" once a write has aborted
    db,         \* the sqlite3 database file (committed contents)
    conn,       \* TRUE while a process holds the PMDB that PMDB::new returned
    lastCall,   \* the latest direct call on the store: its name, arguments and result
    nops,       \* the number of direct calls on the store so far
    runs,       \* the number of "pm update" processes started so far
    result,     \* of the latest process: "none", "running", "Ok", "Err", "panic"
    target,     \* the target update::run is at: 0 the local prefix, i repository i
    log,        \* what the latest process did for each target
    prev        \* what the process before it left stored for each target

streamVars == <<doc, pos, buf, entries, status>>
storeVars == <<db, conn, lastCall, nops>>
syncVars == <<runs, result, target, log, prev>>

vars == <<doc, pos, buf, entries, status, db, conn, lastCall, nops,
          runs, result, target, log, prev>>

LF == "LF"
CR == "CR"

-----------------------------------------------------------------------------
(* std helpers, as the standard library computes them                        *)

Max(S) == CHOOSE x \in S : \A y \in S : y <= x
Min(S) == CHOOSE x \in S : \A y \in S : x <= y

(* let y = x in F(y): x is computed once, as a Rust `let` computes it.       *)
Bind(x, F(_)) == CHOOSE v \in {F(y) : y \in {x}} : TRUE

(* std::str::from_utf8(..).is_ok(): every lead byte is followed by its      *)
(* continuation byte and every continuation byte follows a lead byte.      *)
from_utf8(s) ==
    \A i \in 1..Len(s) :
        /\ s[i] = "C3" => (i < Len(s) /\ s[i + 1] = "A9")
        /\ s[i] = "A9" => (i > 1 /\ s[i - 1] = "C3")

(* A search that returns the first double line-break, as find would.        *)
rfind_First(s) ==
    LET I == {i \in 1..(Len(s) - 1) : s[i] = LF /\ s[i + 1] = LF}
    IN  IF I = {} THEN 0 ELSE Min(I)

(* s.rfind("\n\n"): the (1-based) index of the last double line-break, 0    *)
(* for None.                                                                *)
rfind(s) ==
    LET I == {i \in 1..(Len(s) - 1) : s[i] = LF /\ s[i + 1] = LF}
    IN  IF I = {} THEN 0 ELSE Max(I)

(* s.find(pat) for a pattern of one or two bytes; 0 for None.               *)
find(s, pat) ==
    LET I == {i \in 1..(Len(s) - Len(pat) + 1) :
                 \A j \in 1..Len(pat) : s[i + j - 1] = pat[j]}
    IN  IF I = {} THEN 0 ELSE Min(I)

(* s.split(pat): leftmost non-overlapping matches.                          *)
RECURSIVE split(_, _)
split(s, pat) ==
    Bind(find(s, pat), LAMBDA i :
        IF i = 0 THEN <<s>>
        ELSE <<SubSeq(s, 1, i - 1)>> \o split(SubSeq(s, i + Len(pat), Len(s)), pat))

(* s.split_terminator(pat): as split, without a trailing empty piece.       *)
split_terminator(s, pat) ==
    Bind(split(s, pat), LAMBDA p :
        IF p[Len(p)] = <<>> THEN SubSeq(p, 1, Len(p) - 1) ELSE p)

(* s.lines(): split_terminator('\n'), each line without one trailing '\r'.  *)
lines(s) ==
    Bind(split_terminator(s, <<LF>>), LAMBDA p :
        [i \in 1..Len(p) |->
            IF p[i] # <<>> /\ p[i][Len(p[i])] = CR
            THEN SubSeq(p[i], 1, Len(p[i]) - 1) ELSE p[i]])

(* line.splitn(2, '='): one piece when the line holds no '='.               *)
splitn2(line) ==
    LET i == find(line, <<"=">>)
    IN  IF i = 0 THEN <<line>>
        ELSE <<SubSeq(line, 1, i - 1), SubSeq(line, i + 1, Len(line))>>

(* A split at the first '-' instead of the last.                            *)
rsplitn2_First(s) ==
    LET I == {i \in 1..Len(s) : s[i] = "-"}
    IN  IF I = {} THEN <<s>>
        ELSE <<SubSeq(s, Min(I) + 1, Len(s)), SubSeq(s, 1, Min(I) - 1)>>

(* s.rsplitn(2, '-'): the text after the last '-' first, then the text      *)
(* before it; one piece when s holds no '-'.                                *)
rsplitn2(s) ==
    LET I == {i \in 1..Len(s) : s[i] = "-"}
    IN  IF I = {} THEN <<s>>
        ELSE <<SubSeq(s, Max(I) + 1, Len(s)), SubSeq(s, 1, Max(I) - 1)>>

DigitVal == ("0" :> 0) @@ ("1" :> 1) @@ ("2" :> 2) @@ ("3" :> 3) @@ ("4" :> 4)
            @@ ("5" :> 5) @@ ("6" :> 6) @@ ("7" :> 7) @@ ("8" :> 8) @@ ("9" :> 9)

RECURSIVE DecimalValue(_)
DecimalValue(d) ==
    IF d = <<>> THEN 0
    ELSE 10 * DecimalValue(SubSeq(d, 1, Len(d) - 1)) + DigitVal[d[Len(d)]]

(* A conversion that takes digits only, no sign.                             *)
parse_i64_Unsigned(value) ==
    IF value # <<>> /\ \A i \in 1..Len(value) : value[i] \in DOMAIN DigitVal
    THEN [ok |-> TRUE, v |-> DecimalValue(value)]
    ELSE [ok |-> FALSE, v |-> 0]

(* value.parse::<i64>(): an optional sign, then one or more digits.  (The   *)
(* documents of this model hold no value long enough to overflow an i64.)   *)
parse_i64(value) ==
    LET signed == value # <<>> /\ value[1] \in {"-", "+"}
        digits == IF signed THEN Tail(value) ELSE value
        ok     == digits # <<>> /\ \A i \in 1..Len(digits) : digits[i] \in DOMAIN DigitVal
    IN  IF ~ok THEN [ok |-> FALSE, v |-> 0]
        ELSE [ok |-> TRUE,
              v  |-> IF value[1] = "-" THEN 0 - DecimalValue(digits)
                     ELSE DecimalValue(digits)]

-----------------------------------------------------------------------------
(* SummaryEntry                                                              *)

SummaryEntry_new ==
    [automatic |-> <<>>, build_date |-> <<>>, categories |-> <<>>,
     comment |-> <<>>, conflicts |-> <<>>, depends |-> <<>>,
     description |-> <<>>, file_cksum |-> <<>>, file_name |-> <<>>,
     file_size |-> <<>>, homepage |-> <<>>, license |-> <<>>,
     machine_arch |-> <<>>, opsys |-> <<>>, os_version |-> <<>>,
     pkg_options |-> <<>>, pkgbase |-> <<>>, pkgname |-> <<>>,
     pkgpath |-> <<>>, pkgtools_version |-> <<>>, pkgversion |-> <<>>,
     prev_pkgpath |-> <<>>, provides |-> <<>>, requires |-> <<>>,
     size_pkg |-> <<>>, supersedes |-> <<>>]

Ok(sum)    == [sum |-> sum, res |-> "Ok"]
Panic(sum) == [sum |-> sum, res |-> "panic"]

(* A parser whose COMMENT keeps the first value given and whose DEPENDS    *)
(* puts each value before the earlier ones.                                  *)
parse_entry_KeepFirst(sum, key, value) ==
    LET valstring == value
        vali64    == parse_i64(value)
    IN  CASE key = <<"BUILD_DATE">> -> Ok([sum EXCEPT !.build_date = valstring])
          [] key = <<"CATEGORIES">> -> Ok([sum EXCEPT !.categories = Append(@, valstring)])
          [] key = <<"COMMENT">> ->
                Ok([sum EXCEPT !.comment = IF @ = <<>> THEN valstring ELSE @])
          [] key = <<"CONFLICTS">> -> Ok([sum EXCEPT !.conflicts = Append(@, valstring)])
          [] key = <<"DEPENDS">> -> Ok([sum EXCEPT !.depends = <<valstring>> \o @])
          [] key = <<"DESCRIPTION">> -> Ok([sum EXCEPT !.description = Append(@, valstring)])
          [] key = <<"FILE_CKSUM">> -> Ok([sum EXCEPT !.file_cksum = <<valstring>>])
          [] key = <<"FILE_NAME">> -> Ok([sum EXCEPT !.file_name = <<valstring>>])
          [] key = <<"FILE_SIZE">> ->
                IF vali64.ok THEN Ok([sum EXCEPT !.file_size = <<vali64.v>>])
                ELSE Panic(sum)
          [] key = <<"HOMEPAGE">> -> Ok([sum EXCEPT !.homepage = <<valstring>>])
          [] key = <<"LICENSE">> -> Ok([sum EXCEPT !.license = <<valstring>>])
          [] key = <<"MACHINE_ARCH">> -> Ok([sum EXCEPT !.machine_arch = valstring])
          [] key = <<"OPSYS">> -> Ok([sum EXCEPT !.opsys = valstring])
          [] key = <<"OS_VERSION">> -> Ok([sum EXCEPT !.os_version = valstring])
          [] key = <<"PKG_OPTIONS">> -> Ok([sum EXCEPT !.pkg_options = <<valstring>>])
          [] key = <<"PKGNAME">> ->
                LET v == rsplitn2(valstring)
                IN  IF Len(v) < 2 THEN Panic([sum EXCEPT !.pkgname = valstring])
                    ELSE Ok([sum EXCEPT !.pkgname = valstring,
                                        !.pkgbase = v[2],
                                        !.pkgversion = v[1]])
          [] key = <<"PKGPATH">> -> Ok([sum EXCEPT !.pkgpath = valstring])
          [] key = <<"PKGTOOLS_VERSION">> -> Ok([sum EXCEPT !.pkgtools_version = valstring])
          [] key = <<"PREV_PKGPATH">> -> Ok([sum EXCEPT !.prev_pkgpath = <<valstring>>])
          [] key = <<"PROVIDES">> -> Ok([sum EXCEPT !.provides = Append(@, valstring)])
          [] key = <<"REQUIRES">> -> Ok([sum EXCEPT !.requires = Append(@, valstring)])
          [] key = <<"SIZE_PKG">> ->
                IF vali64.ok THEN Ok([sum EXCEPT !.size_pkg = <<vali64.v>>])
                ELSE Panic(sum)
          [] key = <<"SUPERSEDES">> -> Ok([sum EXCEPT !.supersedes = Append(@, valstring)])
          [] OTHER -> [sum |-> sum, res |-> "Err"]

(* SummaryEntry::parse_entry: res is "Ok", "Err" (unhandled key) or "panic" *)
(* (an unwrap of a failed integer parse, or v[1] of a PKGNAME without '-'). *)
parse_entry(sum, key, value) ==
    LET valstring == value
        vali64    == parse_i64(value)
    IN  CASE key = <<"BUILD_DATE">> -> Ok([sum EXCEPT !.build_date = valstring])
          [] key = <<"CATEGORIES">> -> Ok([sum EXCEPT !.categories = Append(@, valstring)])
          [] key = <<"COMMENT">> -> Ok([sum EXCEPT !.comment = valstring])
          [] key = <<"CONFLICTS">> -> Ok([sum EXCEPT !.conflicts = Append(@, valstring)])
          [] key = <<"DEPENDS">> -> Ok([sum EXCEPT !.depends = Append(@, valstring)])
          [] key = <<"DESCRIPTION">> -> Ok([sum EXCEPT !.description = Append(@, valstring)])
          [] key = <<"FILE_CKSUM">> -> Ok([sum EXCEPT !.file_cksum = <<valstring>>])
          [] key = <<"FILE_NAME">> -> Ok([sum EXCEPT !.file_name = <<valstring>>])
          [] key = <<"FILE_SIZE">> ->
                IF vali64.ok THEN Ok([sum EXCEPT !.file_size = <<vali64.v>>])
                ELSE Panic(sum)
          [] key = <<"HOMEPAGE">> -> Ok([sum EXCEPT !.homepage = <<valstring>>])
          [] key = <<"LICENSE">> -> Ok([sum EXCEPT !.license = <<valstring>>])
          [] key = <<"MACHINE_ARCH">> -> Ok([sum EXCEPT !.machine_arch = valstring])
          [] key = <<"OPSYS">> -> Ok([sum EXCEPT !.opsys = valstring])
          [] key = <<"OS_VERSION">> -> Ok([sum EXCEPT !.os_version = valstring])
          [] key = <<"PKG_OPTIONS">> -> Ok([sum EXCEPT !.pkg_options = <<valstring>>])
          [] key = <<"PKGNAME">> ->
                LET v == rsplitn2(valstring)
                IN  IF Len(v) < 2 THEN Panic([sum EXCEPT !.pkgname = valstring])
                    ELSE Ok([sum EXCEPT !.pkgname = valstring,
                                        !.pkgbase = v[2],
                                        !.pkgversion = v[1]])
          [] key = <<"PKGPATH">> -> Ok([sum EXCEPT !.pkgpath = valstring])
          [] key = <<"PKGTOOLS_VERSION">> -> Ok([sum EXCEPT !.pkgtools_version = valstring])
          [] key = <<"PREV_PKGPATH">> -> Ok([sum EXCEPT !.prev_pkgpath = <<valstring>>])
          [] key = <<"PROVIDES">> -> Ok([sum EXCEPT !.provides = Append(@, valstring)])
          [] key = <<"REQUIRES">> -> Ok([sum EXCEPT !.requires = Append(@, valstring)])
          [] key = <<"SIZE_PKG">> ->
                IF vali64.ok THEN Ok([sum EXCEPT !.size_pkg = <<vali64.v>>])
                ELSE Panic(sum)
          [] key = <<"SUPERSEDES">> -> Ok([sum EXCEPT !.supersedes = Append(@, valstring)])
          [] OTHER -> [sum |-> sum, res |-> "Err"]

(* validate without its DESCRIPTION test.                                    *)
validate_NoDescription(sum) ==
    /\ sum.build_date # <<>>
    /\ sum.categories # <<>>
    /\ sum.comment # <<>>
    /\ sum.machine_arch # <<>>
    /\ sum.opsys # <<>>
    /\ sum.os_version # <<>>
    /\ sum.pkgname # <<>>
    /\ sum.pkgpath # <<>>
    /\ sum.pkgtools_version # <<>>
    /\ sum.size_pkg # <<>>

(* A validation that does not look at the comment.                           *)
validate_NoComment(sum) ==
    /\ sum.build_date # <<>>
    /\ sum.categories # <<>>
    /\ sum.description # <<>>
    /\ sum.machine_arch # <<>>
    /\ sum.opsys # <<>>
    /\ sum.os_version # <<>>
    /\ sum.pkgname # <<>>
    /\ sum.pkgpath # <<>>
    /\ sum.pkgtools_version # <<>>
    /\ sum.size_pkg # <<>>

(* SummaryEntry::validate: TRUE for Ok(()).                                  *)
validate(sum) ==
    /\ sum.build_date # <<>>
    /\ sum.categories # <<>>
    /\ sum.comment # <<>>
    /\ sum.description # <<>>
    /\ sum.machine_arch # <<>>
    /\ sum.opsys # <<>>
    /\ sum.os_version # <<>>
    /\ sum.pkgname # <<>>
    /\ sum.pkgpath # <<>>
    /\ sum.pkgtools_version # <<>>
    /\ sum.size_pkg # <<>>

-----------------------------------------------------------------------------
(* SummaryStream::write                                                      *)

(* A loop that gives the record up at the first unhandled key.              *)
RECURSIVE parse_lines_RejectOnErr(_, _, _)
parse_lines_RejectOnErr(sum, ls, i) ==
    IF i > Len(ls) THEN Ok(sum)
    ELSE Bind(splitn2(ls[i]), LAMBDA v :
            IF Len(v) < 2 THEN Panic(sum)
            ELSE Bind(parse_entry(sum, v[1], v[2]), LAMBDA r :
                    IF r.res = "panic" THEN r
                    ELSE IF r.res = "Err" THEN Ok(SummaryEntry_new)
                    ELSE parse_lines_RejectOnErr(r.sum, ls, i + 1)))

(* The inner loop of write over the lines ls of one record, from line i on: *)
(* a line without '=' panics, a parse_entry error is printed and skipped.   *)
RECURSIVE parse_lines(_, _, _)
parse_lines(sum, ls, i) ==
    IF i > Len(ls) THEN Ok(sum)
    ELSE Bind(splitn2(ls[i]), LAMBDA v :
            IF Len(v) < 2 THEN Panic(sum)
            ELSE Bind(parse_entry(sum, v[1], v[2]), LAMBDA r :
                    IF r.res = "panic" THEN r
                    ELSE parse_lines(r.sum, ls, i + 1)))

(* The body of the outer loop for one record: a fresh entry, the lines.     *)
parse_record(rec) ==
    Bind(lines(rec), LAMBDA ls : parse_lines(SummaryEntry_new, ls, 1))

(* A loop that puts each new entry before the entries it already has.       *)
RECURSIVE parse_records_Prepend(_, _, _)
parse_records_Prepend(es, recs, i) ==
    IF i > Len(recs) THEN [entries |-> es, res |-> "Ok"]
    ELSE Bind(parse_record(recs[i]), LAMBDA r :
            IF r.res = "panic" THEN [entries |-> es, res |-> "panic"]
            ELSE parse_records_Prepend(IF validate(r.sum) THEN <<r.sum>> \o es ELSE es,
                                       recs, i + 1))

(* The outer loop of write over the records of input_string, from record i  *)
(* on: each record is parsed into a fresh entry and pushed when it          *)
(* validates.                                                                *)
RECURSIVE parse_records(_, _, _)
parse_records(es, recs, i) ==
    IF i > Len(recs) THEN [entries |-> es, res |-> "Ok"]
    ELSE Bind(parse_record(recs[i]), LAMBDA r :
            IF r.res = "panic" THEN [entries |-> es, res |-> "panic"]
            ELSE parse_records(IF validate(r.sum) THEN Append(es, r.sum) ELSE es,
                               recs, i + 1))


(* A write that forgets the incomplete record at the end of its buffer.      *)
write_DropTail(b, es, input) ==
    Bind(b \o input, LAMBDA b1 :
        IF ~from_utf8(b1) THEN [buf |-> b1, entries |-> es, res |-> "panic", n |-> 0]
        ELSE Bind(rfind(b1), LAMBDA last :
            IF last = 0 THEN [buf |-> b1, entries |-> es, res |-> "Ok", n |-> Len(input)]
            ELSE Bind(split_terminator(SubSeq(b1, 1, last + 1), <<LF, LF>>),
                      LAMBDA recs :
                Bind(parse_records(es, recs, 1), LAMBDA r :
                    IF r.res = "panic"
                    THEN [buf |-> b1, entries |-> r.entries, res |-> "panic", n |-> 0]
                    ELSE [buf |-> <<>>,
                          entries |-> r.entries, res |-> "Ok", n |-> Len(input)]))))


(* write(&mut self, input): the stream after the call and what the call     *)
(* did: res "Ok" with n = input.len() returned, or res "panic".             *)
write(b, es, input) ==
    Bind(b \o input, LAMBDA b1 :
        IF ~from_utf8(b1) THEN [buf |-> b1, entries |-> es, res |-> "panic", n |-> 0]
        ELSE Bind(rfind(b1), LAMBDA last :
            IF last = 0 THEN [buf |-> b1, entries |-> es, res |-> "Ok", n |-> Len(input)]
            ELSE Bind(split_terminator(SubSeq(b1, 1, last + 1), <<LF, LF>>),
                      LAMBDA recs :  \* the records of input_string
                Bind(parse_records(es, recs, 1), LAMBDA r :
                    IF r.res = "panic"
                    THEN [buf |-> b1, entries |-> r.entries, res |-> "panic", n |-> 0]
                    ELSE [buf |-> SubSeq(b1, last + 2, Len(b1)),
                          entries |-> r.entries, res |-> "Ok", n |-> Len(input)]))))

-----------------------------------------------------------------------------
(* The sqlite3 store of pmdb.rs.  A database is the set of its tables and   *)
(* the rows of each; a statement yields the database after it, whether it   *)
(* succeeded, and the rowid it inserted.                                     *)

DB_VERSION == 20190305

LocalTables ==
    {"local_repository", "local_pkg", "local_conflicts", "local_depends",
     "local_provides", "local_requires"}
RemoteTables ==
    {"remote_repository", "remote_pkg", "remote_conflicts", "remote_depends",
     "remote_provides", "remote_requires"}
AllTables == {"metadata"} \cup LocalTables \cup RemoteTables

(* Table names of a domain ("local" or "remote").                            *)
RepositoryTable(dom) == IF dom = "local" THEN "local_repository" ELSE "remote_repository"
PkgTable(dom) == IF dom = "local" THEN "local_pkg" ELSE "remote_pkg"
SatelliteTable(dom, kind) ==
    CASE kind = "conflicts" -> IF dom = "local" THEN "local_conflicts" ELSE "remote_conflicts"
      [] kind = "depends" -> IF dom = "local" THEN "local_depends" ELSE "remote_depends"
      [] kind = "provides" -> IF dom = "local" THEN "local_provides" ELSE "remote_provides"
      [] kind = "requires" -> IF dom = "local" THEN "local_requires" ELSE "remote_requires"

(* The column a repository is keyed by: UNIQUE in the schema.                *)
KeyOf(dom, row) == IF dom = "local" THEN row.prefix ELSE row.url

(* A database file that does not exist yet: Connection::open creates it     *)
(* empty.                                                                    *)
NoTables == [tables |-> {}, rows |-> [t \in AllTables |-> {}]]

SqlOk(d, rowid) == [d |-> d, ok |-> TRUE, rowid |-> rowid]
SqlErr(d) == [d |-> d, ok |-> FALSE, rowid |-> 0]

(* CREATE TABLE t: an error when the table exists.                           *)
sql_create_table(d, t) ==
    IF t \in d.tables THEN SqlErr(d)
    ELSE SqlOk([d EXCEPT !.tables = @ \cup {t}], 0)

(* DROP TABLE IF EXISTS t.                                                   *)
sql_drop_table(d, t) ==
    SqlOk([d EXCEPT !.tables = @ \ {t}, !.rows[t] = {}], 0)

(* The rowid sqlite gives a new row of an INTEGER PRIMARY KEY table: one    *)
(* more than the largest in the table.                                       *)
NewRowid(d, t) ==
    IF d.rows[t] = {} THEN 1 ELSE Max({r.id : r \in d.rows[t]}) + 1

(* An INSERT that ignores the UNIQUE constraint of the repository key.       *)
sql_insert_NoUnique(d, t, row) ==
    IF t \notin d.tables THEN SqlErr(d)
    ELSE SqlOk([d EXCEPT !.rows[t] =
                   @ \cup {[id |-> NewRowid(d, t)] @@ row}], NewRowid(d, t))

(* INSERT INTO t: an error when the table is missing, or when t is a        *)
(* repository table and holds a row with the same key (UNIQUE).             *)
sql_insert(d, t, row) ==
    IF t \notin d.tables THEN SqlErr(d)
    ELSE IF t = "local_repository" /\ \E r \in d.rows[t] : r.prefix = row.prefix
    THEN SqlErr(d)
    ELSE IF t = "remote_repository" /\ \E r \in d.rows[t] : r.url = row.url
    THEN SqlErr(d)
    ELSE LET id == NewRowid(d, t)
         IN  SqlOk([d EXCEPT !.rows[t] = @ \cup {[id |-> id] @@ row}], id)

(* A DELETE without its WHERE clause.                                        *)
sql_delete_All(d, t, repository_id) ==
    IF t \notin d.tables THEN SqlErr(d)
    ELSE SqlOk([d EXCEPT !.rows[t] = {}], 0)


(* DELETE FROM t WHERE repository_id = :repository_id.                       *)
sql_delete(d, t, repository_id) ==
    IF t \notin d.tables THEN SqlErr(d)
    ELSE SqlOk([d EXCEPT !.rows[t] = {r \in @ : r.repository_id # repository_id}], 0)

(* An UPDATE whose WHERE clause matches no row.                              *)
sql_update_NoRow(d, dom, key, tok) ==
    IF RepositoryTable(dom) \notin d.tables THEN SqlErr(d) ELSE SqlOk(d, 0)

(* An UPDATE that writes the key into the prefix column as well.             *)
sql_update_Prefix(d, dom, key, tok) ==
    IF RepositoryTable(dom) \notin d.tables THEN SqlErr(d)
    ELSE SqlOk([d EXCEPT !.rows[RepositoryTable(dom)] =
                    {IF KeyOf(dom, r) = key THEN [prefix |-> key] @@ tok @@ r ELSE r
                        : r \in @}], 0)


(* UPDATE <repository table> SET <token> WHERE <key> = :key.                 *)
sql_update(d, dom, key, tok) ==
    IF RepositoryTable(dom) \notin d.tables THEN SqlErr(d)
    ELSE SqlOk([d EXCEPT !.rows[RepositoryTable(dom)] =
                    {IF KeyOf(dom, r) = key THEN tok @@ r ELSE r : r \in @}], 0)

(* A transaction in progress: the working copy d, whether every statement   *)
(* so far succeeded, the rowid of the last insert, and `left`, the number   *)
(* of statements until the environment fails one (disk full, I/O error,     *)
(* interruption); 0 when it fails none.                                      *)
Begin(d, fault) == [d |-> d, ok |-> TRUE, rowid |-> 0, left |-> fault]

(* One statement of a transaction (the `?` after it): skipped once a        *)
(* statement has failed.  Stmt maps the working copy to the statement's     *)
(* result.                                                                   *)
Exec(tx, Stmt(_)) ==
    Bind(tx, LAMBDA t :
        IF ~t.ok THEN t
        ELSE IF t.left = 1 THEN [t EXCEPT !.ok = FALSE]
        ELSE Bind(Stmt(t.d), LAMBDA r :
                 IF ~r.ok THEN [t EXCEPT !.ok = FALSE]
                 ELSE [d |-> r.d, ok |-> TRUE, rowid |-> r.rowid,
                       left |-> IF t.left = 0 THEN 0 ELSE t.left - 1]))

(* A failed transaction whose statements so far stay applied.               *)
Rollback_Keep(d, tx) == tx.d

(* Dropping a rusqlite Transaction that was not committed rolls it back:    *)
(* the database is the one before the transaction.                           *)
Rollback(d, tx) == d

(* tx.commit(), or the drop of tx on an early return.  left is 1 after a    *)
(* statement the environment failed.                                         *)
Commit(d, tx) ==
    Bind(Exec(tx, LAMBDA x : SqlOk(x, 0)), LAMBDA c :
        IF c.ok THEN [d |-> c.d, ok |-> TRUE, left |-> c.left]
        ELSE [d |-> Rollback(d, c), ok |-> FALSE, left |-> c.left])

RECURSIVE ExecAll(_, _, _)
(* execute_batch: the statements in order, stopping at the first error.     *)
ExecAll(tx, Stmt(_, _), ts) ==
    IF ts = <<>> THEN tx
    ELSE ExecAll(Exec(tx, LAMBDA x : Stmt(x, Head(ts))), Stmt, Tail(ts))

CreateOrder ==
    <<"metadata", "local_repository", "local_pkg", "local_conflicts",
      "local_depends", "local_provides", "local_requires", "remote_repository",
      "remote_pkg", "remote_conflicts", "remote_depends", "remote_provides",
      "remote_requires">>

(* REPLACE INTO metadata (version): metadata has no key, so a plain insert. *)
sql_replace_version(d, version) ==
    IF "metadata" \notin d.tables THEN SqlErr(d)
    ELSE SqlOk([d EXCEPT !.rows["metadata"] =
                   @ \cup {[id |-> NewRowid(d, "metadata"), version |-> version]}], 0)

(* PMDB::create_default_tables, of a release whose DB_VERSION is `version`. *)
create_default_tables(d, version, fault) ==
    Commit(d, Exec(ExecAll(Begin(d, fault), sql_create_table, CreateOrder),
                   LAMBDA x : sql_replace_version(x, version)))

DropOrder ==
    <<"metadata", "local_repository", "remote_repository", "local_pkg", "remote_pkg">>

(* PMDB::drop_default_tables.                                                *)
drop_default_tables(d, fault) ==
    Commit(d, ExecAll(Begin(d, fault), sql_drop_table, DropOrder))

(* PMDB::is_created.                                                         *)
is_created(d) == "metadata" \in d.tables

(* A test that finds every stored stamp out of date.                         *)
is_current_Never(d, version) ==
    IF d.rows["metadata"] = {} THEN [ok |-> FALSE, v |-> FALSE]
    ELSE [ok |-> TRUE, v |-> FALSE]


(* PMDB::is_current: ok is FALSE when the query returns no row.             *)
is_current(d, version) ==
    IF d.rows["metadata"] = {} THEN [ok |-> FALSE, v |-> FALSE]
    ELSE LET first == CHOOSE r \in d.rows["metadata"] :
                          \A q \in d.rows["metadata"] : r.id <= q.id
         IN  [ok |-> TRUE, v |-> first.version = version]

(* PMDB::new of a release whose DB_VERSION is `version`: the database after *)
(* the call and whether it returned Ok.  fault is the number of the         *)
(* statement of the call that the environment fails, 0 for none.            *)
new(d, version, fault) ==
    IF ~is_created(d) THEN create_default_tables(d, version, fault)
    ELSE IF ~is_current(d, version).ok THEN [d |-> d, ok |-> FALSE, left |-> 0]
    ELSE IF ~is_current(d, version).v
    THEN Bind(drop_default_tables(d, fault), LAMBDA dropped :
             IF ~dropped.ok THEN dropped
             ELSE create_default_tables(dropped.d, version, dropped.left))
    ELSE [d |-> d, ok |-> TRUE, left |-> 0]

(* p.categories().join(" "), p.description().join("\n")                     *)
RECURSIVE join(_, _)
join(v, sep) ==
    IF v = <<>> THEN <<>>
    ELSE IF Len(v) = 1 THEN v[1]
    ELSE v[1] \o sep \o join(Tail(v), sep)

(* The accessors of SummaryEntry that unwrap an Option.                      *)
unwrap_or(opt, default) == IF opt = <<>> THEN default ELSE opt[1]

(* The row insert_local_pkgs / insert_remote_pkgs writes for entry p.        *)
PkgRow(dom, repository_id, p) ==
    LET common ==
          [repository_id |-> repository_id,
           build_date |-> p.build_date,
           categories |-> join(p.categories, <<" ">>),
           comment |-> p.comment,
           description |-> join(p.description, <<LF>>),
           homepage |-> unwrap_or(p.homepage, <<>>),
           license |-> unwrap_or(p.license, <<>>),
           opsys |-> p.opsys,
           os_version |-> p.os_version,
           pkg_options |-> unwrap_or(p.pkg_options, <<>>),
           pkgbase |-> p.pkgbase,
           pkgname |-> p.pkgname,
           pkgpath |-> p.pkgpath,
           pkgtools_version |-> p.pkgtools_version,
           pkgversion |-> p.pkgversion,
           size_pkg |-> p.size_pkg[1]]
    IN  IF dom = "local" THEN [automatic |-> unwrap_or(p.automatic, 0)] @@ common
        ELSE [file_size |-> unwrap_or(p.file_size, 0)] @@ common

SatelliteKinds == <<"conflicts", "depends", "provides", "requires">>

(* One `for x in p.xs()` loop: a row of the satellite table per value.       *)
RECURSIVE insert_values(_, _, _, _, _, _)
insert_values(tx, dom, kind, repository_id, pkg_id, vals) ==
    IF vals = <<>> THEN tx
    ELSE insert_values(
             Exec(tx, LAMBDA x : sql_insert(x, SatelliteTable(dom, kind),
                      (kind :> Head(vals))
                      @@ [repository_id |-> repository_id, pkg_id |-> pkg_id])),
             dom, kind, repository_id, pkg_id, Tail(vals))

(* The four loops for one entry, from kind number k on.                      *)
RECURSIVE insert_satellites(_, _, _, _, _, _)
insert_satellites(tx, dom, repository_id, pkg_id, p, k) ==
    IF k > Len(SatelliteKinds) THEN tx
    ELSE insert_satellites(
             insert_values(tx, dom, SatelliteKinds[k], repository_id, pkg_id,
                           p[SatelliteKinds[k]]),
             dom, repository_id, pkg_id, p, k + 1)

(* PMDB::insert_local_pkgs / insert_remote_pkgs.                             *)
RECURSIVE insert_pkgs(_, _, _, _)
insert_pkgs(tx, dom, repository_id, pkgs) ==
    IF pkgs = <<>> THEN tx
    ELSE Bind(Exec(tx, LAMBDA x : sql_insert(x, PkgTable(dom),
                                   PkgRow(dom, repository_id, Head(pkgs)))),
              LAMBDA t1 :  \* pkg_id = t1.rowid
                 insert_pkgs(
                     insert_satellites(t1, dom, repository_id, t1.rowid, Head(pkgs), 1),
                     dom, repository_id, Tail(pkgs)))

DeleteOrder == <<"pkg", "conflicts", "depends", "provides", "requires">>

(* A delete that forgets the last satellite table.                           *)
RECURSIVE delete_pkgs_KeepRequires(_, _, _, _)
delete_pkgs_KeepRequires(tx, dom, repository_id, k) ==
    IF k > Len(DeleteOrder) - 1 THEN tx
    ELSE delete_pkgs_KeepRequires(
             Exec(tx, LAMBDA x : sql_delete(x,
                      IF DeleteOrder[k] = "pkg" THEN PkgTable(dom)
                      ELSE SatelliteTable(dom, DeleteOrder[k]),
                      repository_id)),
             dom, repository_id, k + 1)

(* A delete that clears the satellite tables and leaves the package rows.   *)
RECURSIVE delete_pkgs_KeepPkg(_, _, _, _)
delete_pkgs_KeepPkg(tx, dom, repository_id, k) ==
    IF k > Len(DeleteOrder) THEN tx
    ELSE delete_pkgs_KeepPkg(
             IF DeleteOrder[k] = "pkg" THEN tx
             ELSE Exec(tx, LAMBDA x : sql_delete(x, SatelliteTable(dom, DeleteOrder[k]),
                                                 repository_id)),
             dom, repository_id, k + 1)

(* PMDB::delete_local_pkgs / delete_remote_pkgs, from table number k on.     *)
RECURSIVE delete_pkgs(_, _, _, _)
delete_pkgs(tx, dom, repository_id, k) ==
    IF k > Len(DeleteOrder) THEN tx
    ELSE delete_pkgs(
             Exec(tx, LAMBDA x : sql_delete(x,
                      IF DeleteOrder[k] = "pkg" THEN PkgTable(dom)
                      ELSE SatelliteTable(dom, DeleteOrder[k]),
                      repository_id)),
             dom, repository_id, k + 1)

(* The rows of a repository table with the given key.                        *)
RepositoryRows(d, dom, key) ==
    {r \in d.rows[RepositoryTable(dom)] : KeyOf(dom, r) = key}

(* A lookup that returns the first row of the table, whatever its key.      *)
get_repository_AnyKey(d, dom, key) ==
    IF RepositoryTable(dom) \notin d.tables THEN [ok |-> FALSE, repo |-> <<>>]
    ELSE IF d.rows[RepositoryTable(dom)] = {} THEN [ok |-> TRUE, repo |-> <<>>]
    ELSE LET r == CHOOSE r \in d.rows[RepositoryTable(dom)] : TRUE
         IN  [ok |-> TRUE,
              repo |-> IF dom = "local"
                       THEN <<[mtime |-> r.mtime, ntime |-> r.ntime]>>
                       ELSE <<[mtime |-> r.mtime, summary_suffix |-> r.summary_suffix]>>]

(* PMDB::get_local_repository / get_remote_repository: ok FALSE for Err,    *)
(* repo <<>> for None, <<token>> for Some.                                   *)
get_repository(d, dom, key) ==
    IF RepositoryTable(dom) \notin d.tables THEN [ok |-> FALSE, repo |-> <<>>]
    ELSE IF RepositoryRows(d, dom, key) = {} THEN [ok |-> TRUE, repo |-> <<>>]
    ELSE LET r == CHOOSE r \in RepositoryRows(d, dom, key) : TRUE
         IN  [ok |-> TRUE,
              repo |-> IF dom = "local"
                       THEN <<[mtime |-> r.mtime, ntime |-> r.ntime]>>
                       ELSE <<[mtime |-> r.mtime, summary_suffix |-> r.summary_suffix]>>]

(* A query that yields id 0 when no row has the key.                         *)
sql_select_id_Default(d, dom, key) ==
    IF RepositoryTable(dom) \notin d.tables THEN SqlErr(d)
    ELSE IF RepositoryRows(d, dom, key) = {} THEN SqlOk(d, 0)
    ELSE SqlOk(d, (CHOOSE r \in RepositoryRows(d, dom, key) : TRUE).id)


(* SELECT id FROM <repository table> WHERE <key> = :key, by query_row: an   *)
(* error when no row is returned.                                            *)
sql_select_id(d, dom, key) ==
    IF RepositoryTable(dom) \notin d.tables \/ RepositoryRows(d, dom, key) = {}
    THEN SqlErr(d)
    ELSE SqlOk(d, (CHOOSE r \in RepositoryRows(d, dom, key) : TRUE).id)

(* The body shared by insert_local_repository and insert_remote_repository: *)
(* the repository row, then its packages, in one transaction.               *)
insert_repository(d, dom, row, pkgs, fault) ==
    Bind(Exec(Begin(d, fault), LAMBDA x : sql_insert(x, RepositoryTable(dom), row)),
         LAMBDA t1 :  \* repository_id = t1.rowid
            Commit(d, insert_pkgs(t1, dom, t1.rowid, pkgs)))

(* PMDB::insert_local_repository                                             *)
insert_local_repository(d, prefix, mtime, ntime, pkgs, fault) ==
    insert_repository(d, "local",
        [prefix |-> prefix, mtime |-> mtime, ntime |-> ntime], pkgs, fault)

(* PMDB::insert_remote_repository                                            *)
insert_remote_repository(d, url, prefix, mtime, summary_suffix, pkgs, fault) ==
    insert_repository(d, "remote",
        [url |-> url, prefix |-> prefix, mtime |-> mtime,
         summary_suffix |-> summary_suffix], pkgs, fault)

(* The body shared by update_local_repository and update_remote_repository: *)
(* look the repository up, delete what it owns, insert the packages, update *)
(* the token, in one transaction.                                            *)
update_repository(d, dom, key, tok, pkgs, fault) ==
    Bind(Exec(Begin(d, fault), LAMBDA x : sql_select_id(x, dom, key)),
         LAMBDA t1 :  \* repository_id = t1.rowid
            Commit(d,
                Exec(insert_pkgs(delete_pkgs(t1, dom, t1.rowid, 1), dom, t1.rowid, pkgs),
                     LAMBDA x : sql_update(x, dom, key, tok))))

(* PMDB::update_local_repository                                             *)
update_local_repository(d, prefix, mtime, ntime, pkgs, fault) ==
    update_repository(d, "local", prefix, [mtime |-> mtime, ntime |-> ntime], pkgs, fault)

(* PMDB::update_remote_repository                                            *)
update_remote_repository(d, url, mtime, summary_suffix, pkgs, fault) ==
    update_repository(d, "remote", url,
        [mtime |-> mtime, summary_suffix |-> summary_suffix], pkgs, fault)

(* The byte of a symbol, for the BINARY collation of ORDER BY.               *)
Byte(c) ==
    CASE c = "-" -> 45 [] c = "0" -> 48 [] c = "1" -> 49
      [] c = "a" -> 97 [] c = "b" -> 98 [] c = "c" -> 99 [] c = "d" -> 100

(* memcmp order of two texts, the shorter first when one is a prefix.       *)
RECURSIVE TextLE(_, _)
TextLE(a, b) ==
    IF a = <<>> THEN TRUE
    ELSE IF b = <<>> THEN FALSE
    ELSE IF Byte(a[1]) # Byte(b[1]) THEN Byte(a[1]) < Byte(b[1])
    ELSE TextLE(Tail(a), Tail(b))

(* The rows in the order of the table scan, as without ORDER BY.            *)
RECURSIVE OrderByRowid(_)
OrderByRowid(rows) ==
    IF rows = {} THEN <<>>
    ELSE LET first == CHOOSE r \in rows : \A q \in rows : r.id <= q.id
         IN  <<first>> \o OrderByRowid(rows \ {first})

(* ORDER BY pkgname ASC over a set of rows; rows of equal pkgname come in   *)
(* rowid order, the order of the table scan.                                 *)
RECURSIVE OrderByPkgname(_)
OrderByPkgname(rows) ==
    IF rows = {} THEN <<>>
    ELSE LET first == CHOOSE r \in rows : \A q \in rows :
                          IF r.pkgname = q.pkgname THEN r.id <= q.id
                          ELSE TextLE(r.pkgname, q.pkgname)
         IN  <<first>> \o OrderByPkgname(rows \ {first})

(* PMDB::get_local_pkgs_by_prefix / get_remote_pkgs_by_prefix: ok FALSE for *)
(* Err, else the ListPackage of every package of a repository with the      *)
(* prefix.                                                                   *)
get_pkgs_by_prefix(d, dom, prefix) ==
    IF {PkgTable(dom), RepositoryTable(dom)} \subseteq d.tables
    THEN LET ids == {r.id : r \in {q \in d.rows[RepositoryTable(dom)] : q.prefix = prefix}}
             joined == OrderByPkgname({r \in d.rows[PkgTable(dom)] : r.repository_id \in ids})
         IN  [ok |-> TRUE,
              pkgs |-> [i \in 1..Len(joined) |->
                          [pkgname |-> joined[i].pkgname, comment |-> joined[i].comment]]]
    ELSE [ok |-> FALSE, pkgs |-> <<>>]

-----------------------------------------------------------------------------
(* The documents of the model.                                               *)

MaxRaw == 4
MaxRecords == 2
MaxChunk == 3

RawBytes == {LF, "=", "a", "C3", "A9", "COMMENT"}

RECURSIVE SeqsUpTo(_, _)
SeqsUpTo(S, n) ==
    IF n = 0 THEN {<<>>}
    ELSE LET T == SeqsUpTo(S, n - 1)
         IN  T \cup {Append(t, x) : t \in {u \in T : Len(u) = n - 1}, x \in S}

(* Every byte string of at most MaxRaw bytes over RawBytes.                  *)
RawDocs == SeqsUpTo(RawBytes, MaxRaw)

Line(k, v) == <<k, "=">> \o v \o <<LF>>

RequiredKeys ==
    <<"BUILD_DATE", "CATEGORIES", "COMMENT", "DESCRIPTION", "MACHINE_ARCH",
      "OPSYS", "OS_VERSION", "PKGNAME", "PKGPATH", "PKGTOOLS_VERSION", "SIZE_PKG">>

Letters == <<"a", "b", "c", "d">>

(* The value a well-formed record number i gives to key k.                   *)
BaseValue(k, i) ==
    CASE k = "PKGNAME" -> <<Letters[i], "-", "1">>
      [] k = "SIZE_PKG" -> <<"0">>
      [] OTHER -> <<Letters[i]>>

(* Lines appended to a record: optional, repeated, multi-valued, unknown    *)
(* and malformed ones.                                                       *)
ExtraLines ==
    { Line("HOMEPAGE", <<"a">>), Line("LICENSE", <<"a">>),
      Line("PKG_OPTIONS", <<"a">>), Line("FILE_NAME", <<"a">>),
      Line("FILE_CKSUM", <<"a">>), Line("PREV_PKGPATH", <<"a">>),
      Line("FILE_SIZE", <<"1", "0">>), Line("FILE_SIZE", <<"-", "1">>),
      Line("FILE_SIZE", <<"a">>), Line("SIZE_PKG", <<"1">>),
      Line("SIZE_PKG", <<"-", "1">>), Line("SIZE_PKG", <<"a">>),
      Line("COMMENT", <<"b">>), Line("COMMENT", <<>>),
      Line("COMMENT", <<"C3", "A9">>), Line("COMMENT", <<"a", "=", "b">>),
      Line("COMMENT", <<"a", CR>>),
      Line("PKGNAME", <<"a">>), Line("PKGNAME", <<"a", "-", "b", "-", "1">>),
      Line("CATEGORIES", <<"b">>), Line("DESCRIPTION", <<>>),
      Line("DEPENDS", <<"a">>) \o Line("DEPENDS", <<"b">>),
      Line("CONFLICTS", <<"a">>), Line("PROVIDES", <<"a">>),
      Line("REQUIRES", <<"a">>), Line("SUPERSEDES", <<"a">>),
      Line("UNKNOWN", <<"a">>), Line("UNKNOWN", <<"a">>) \o Line("X", <<"1">>),
      <<"a", LF>> }

(* How one record of a document is written: the required lines of a         *)
(* well-formed record, with at most one of them dropped or left empty, or   *)
(* with one extra.                                                           *)
Shapes ==
    {[drop |-> "", empty |-> "", extra |-> <<>>]}
    \cup {[drop |-> RequiredKeys[k], empty |-> "", extra |-> <<>>] : k \in 1..Len(RequiredKeys)}
    \cup {[drop |-> "", empty |-> RequiredKeys[k], extra |-> <<>>] : k \in 1..Len(RequiredKeys)}
    \cup {[drop |-> "", empty |-> "", extra |-> x] : x \in ExtraLines}

RECURSIVE RecordLines(_, _, _)
RecordLines(shape, i, k) ==
    IF k > Len(RequiredKeys) THEN shape.extra
    ELSE LET key == RequiredKeys[k]
         IN  (IF shape.drop = key THEN <<>>
              ELSE IF shape.empty = key THEN Line(key, <<>>)
              ELSE Line(key, BaseValue(key, i)))
             \o RecordLines(shape, i, k + 1)

(* Record number i, with the blank line that ends it.                        *)
Record(shape, i) == RecordLines(shape, i, 1) \o <<LF>>

WellFormed == [drop |-> "", empty |-> "", extra |-> <<>>]

(* What follows the last complete record: nothing, one more blank line, or  *)
(* a record cut short in its second line.                                    *)
Tails(n) ==
    {<<>>, <<LF>>,
     Line("PKGNAME", BaseValue("PKGNAME", n + 1)) \o <<"COMMENT", "=", Letters[n + 1]>>}

RECURSIVE Concat(_)
Concat(ss) == IF ss = <<>> THEN <<>> ELSE Head(ss) \o Concat(Tail(ss))

(* The shapes used in documents of several records.                          *)
MultiShapes ==
    {WellFormed,
     [drop |-> "SIZE_PKG", empty |-> "", extra |-> <<>>],
     [drop |-> "", empty |-> "COMMENT", extra |-> <<>>],
     [drop |-> "", empty |-> "", extra |-> Line("UNKNOWN", <<"a">>)],
     [drop |-> "", empty |-> "", extra |-> <<"a", LF>>],
     [drop |-> "", empty |-> "", extra |-> Line("PKGNAME", <<"a">>)],
     [drop |-> "", empty |-> "", extra |-> Line("SIZE_PKG", <<"a">>)],
     [drop |-> "", empty |-> "", extra |-> Line("COMMENT", <<"C3", "A9">>)]}

(* Documents of at most MaxRecords records, at most one of them not         *)
(* well-formed, followed by a tail.                                          *)
RecordDocs ==
    UNION {
      { Concat([i \in 1..n |-> Record(IF i = j THEN s ELSE WellFormed, i)]) \o t :
            j \in 1..n, s \in (IF n = 1 THEN Shapes ELSE MultiShapes), t \in Tails(n) }
      : n \in 1..MaxRecords }

Docs == RawDocs \cup RecordDocs

-----------------------------------------------------------------------------
(* The inputs of the store: keys, tokens and package lists.                  *)

MaxOps == 3

Prefixes == {"/opt/pkg", "/usr/pkg"}
(* What callers pass as the key of a local repository: cfg.prefix(), or the *)
(* PKG_DBDIR that pkg_admin reports for it.                                  *)
LocalKeys == {"/opt/pkg", "/opt/pkg/pkgdb"}
Urls == {"https://a/All", "https://b/All"}
LocalTokens == {[mtime |-> 1, ntime |-> 0], [mtime |-> 2, ntime |-> 5]}
RemoteTokens == {[mtime |-> 1, summary_suffix |-> "xz"],
                 [mtime |-> 2, summary_suffix |-> "gz"]}

(* Two entries as the parser produces them: the first with one value in     *)
(* each satellite list, the second with none.                                *)
EntryA ==
    write(<<>>, <<>>,
          RecordLines(WellFormed, 1, 1) \o Line("CONFLICTS", <<"c">>)
          \o Line("DEPENDS", <<"b">>) \o Line("PROVIDES", <<"a">>)
          \o Line("REQUIRES", <<"d">>) \o <<LF>>).entries[1]
EntryB == write(<<>>, <<>>, Record(WellFormed, 2)).entries[1]

PkgLists == {<<>>, <<EntryA>>, <<EntryB, EntryA>>}

(* A store as an earlier process left it: created by a release whose        *)
(* DB_VERSION is `version`, holding one local and one remote repository.    *)
Populated(version) ==
    LET c == create_default_tables(NoTables, version, 0).d
        l == insert_local_repository(c, "/opt/pkg", 1, 0, <<EntryA>>, 0).d
    IN  insert_remote_repository(l, "https://a/All", "/opt/pkg", 1, "xz",
                                 <<EntryB, EntryA>>, 0).d

(* The database file when the model starts: missing, or left by an earlier  *)
(* process of this release or of the release before it.                      *)
InitialStores == {NoTables, Populated(DB_VERSION), Populated(DB_VERSION - 1)}

(* The last call of the store API: its arguments, the statement the         *)
(* environment failed (0 for none), whether it returned Ok, and whether it  *)
(* repeats the call before it (same operation and arguments, both Ok).      *)
NoCall == [op |-> "none", dom |-> "", key |-> "", prefix |-> "",
           tok |-> [mtime |-> 0], pkgs |-> <<>>, fault |-> 0, ok |-> TRUE,
           repeat |-> FALSE]

Call(op, dom, key, prefix, tok, pkgs, fault, r) ==
    [op |-> op, dom |-> dom, key |-> key, prefix |-> prefix,
     tok |-> tok, pkgs |-> pkgs,
     fault |-> IF ~r.ok /\ r.left = 1 THEN fault ELSE 0, ok |-> r.ok,
     repeat |-> /\ r.ok /\ lastCall.ok
                /\ lastCall.op = op /\ lastCall.dom = dom /\ lastCall.key = key
                /\ lastCall.tok = tok /\ lastCall.pkgs = pkgs]

(* The store part of a state in which no process has opened the store.      *)
StoreIdle ==
    /\ db = NoTables
    /\ conn = FALSE
    /\ lastCall = NoCall
    /\ nops = 0

(* The statements a call may run are fewer than MaxStatements; a fault      *)
(* number is the statement the environment fails, 0 for none.                *)
MaxStatements == 16
Faults == 0..MaxStatements

-----------------------------------------------------------------------------
(* The configuration and the environment of "pm update".                     *)

MaxRuns == 2

(* cfg.prefix(), and what pkg_admin config-var PKG_DBDIR prints for it.     *)
CfgPrefix == "/opt/pkg"
PkgDbDir == "/opt/pkg/pkgdb"

(* cfg.repositories(): the first leaves summary_extension unset.            *)
Repos ==
    <<[url |-> "https://a/All", prefix |-> "/opt/pkg", summary_extension |-> <<>>],
      [url |-> "https://b/All", prefix |-> "/opt/pkg", summary_extension |-> <<"gz">>]>>

Targets == 0..Len(Repos)

(* What a process did for one target: where it ended, the token it          *)
(* observed, whether it began to ingest a document, the store write it      *)
(* called; for a repository the requests it sent with the answer to each,   *)
(* for the local target the packages whose +AUTOMATIC marker existed; and   *)
(* whether the document it began to ingest was text.                         *)
LogEntry(state, observed, slurped, wrote) ==
    [state |-> state, observed |-> observed, slurped |-> slurped, wrote |-> wrote,
     requested |-> <<>>, marked |-> {}, text |-> TRUE]

PendingLog == [t \in Targets |-> LogEntry("pending", <<>>, FALSE, "none")]

(* The process left the target stored under the token it observed.          *)
Stored(entry) == entry.state \in {"up_to_date", "refreshed", "created"}

(* The orchestrator part of a state in which no process has run.            *)
SyncIdle ==
    /\ runs = 0
    /\ result = "none"
    /\ target = 0
    /\ log = PendingLog
    /\ prev = PendingLog

(* The documents the enumerator and the servers deliver: two records, a     *)
(* record whose PKGNAME has no version, and a record cut in the middle of   *)
(* a two-byte character, which is no text.                                   *)
SummaryDoc == Record(WellFormed, 1) \o Record(WellFormed, 2)
SyncDocs ==
    {SummaryDoc,
     Record([drop |-> "PKGNAME", empty |-> "", extra |-> Line("PKGNAME", <<"a">>)], 1),
     Record([drop |-> "", empty |-> "", extra |-> Line("COMMENT", <<"C3">>)], 1)}

(* The statement of a store write that the environment fails, 0 for none.   *)
SyncFaults == {0, 2}

(* The installed packages whose directory under PKG_DBDIR holds the marker  *)
(* of an automatic installation.                                             *)
MarkerSets == {{}, {<<"a", "-", "1">>}}

(* What the local system does during one update_local_repository.           *)
LocalEnvs ==
    [admin : {"ok", "fail"},          \* spawning pkg_admin
     meta : {"ok", "err"},            \* fs::metadata of PKG_DBDIR
     tok : LocalTokens,               \* the mtime of PKG_DBDIR
     info : {"ok", "fail", "io_err"}, \* spawning pkg_info, reading its output
     doc : SyncDocs,                  \* what pkg_info -X -a prints
     marked : MarkerSets,             \* the packages with a marker file
     fault : SyncFaults]

Suffixes == {"xz", "bz2", "gz"}

(* What a server answers to the GET of one pkg_summary.<suffix>; the        *)
(* servers of the model publish no bz2.                                      *)
Responses == {"send_err", "not_found", "no_lm", "bad_lm", "ok"}
ServerAnswers == {f \in [Suffixes -> Responses] : f["bz2"] = "not_found"}

(* What the network does during the processing of one repository.           *)
RemoteEnvs ==
    [resp : ServerAnswers,
     lm : {1, 2},                     \* the Last-Modified of its documents
     io : {"ok", "io_err"},           \* reading and decoding the body
     doc : SyncDocs,                  \* the decoded body
     fault : SyncFaults]

(* The database file when the first process starts.                          *)
SyncStores == {NoTables, Populated(DB_VERSION)}

-----------------------------------------------------------------------------
(* The store driven through its API.                                         *)

StoreInit ==
    /\ db \in InitialStores
    /\ conn = FALSE
    /\ lastCall = NoCall
    /\ nops = 0
    /\ doc = <<>> /\ pos = 0 /\ buf = <<>> /\ entries = <<>> /\ status = "running"
    /\ SyncIdle

(* main: a new process opens the store with PMDB::new; on Err it exits.     *)
Open ==
    /\ nops < MaxOps
    /\ \E fault \in Faults :
          \E r \in {new(db, DB_VERSION, fault)} :
              /\ db' = r.d
              /\ conn' = r.ok
              /\ lastCall' = Call("new", "", "", "", [mtime |-> 0], <<>>, fault, r)
    /\ nops' = nops + 1
    /\ UNCHANGED <<streamVars, syncVars>>

InsertLocal ==
    /\ conn /\ nops < MaxOps
    /\ \E prefix \in LocalKeys, tok \in LocalTokens, pkgs \in PkgLists, fault \in Faults :
          \E r \in {insert_local_repository(db, prefix, tok.mtime, tok.ntime, pkgs, fault)} :
              /\ db' = r.d
              /\ lastCall' = Call("insert", "local", prefix, prefix, tok, pkgs, fault, r)
    /\ nops' = nops + 1
    /\ UNCHANGED <<conn, streamVars, syncVars>>

InsertRemote ==
    /\ conn /\ nops < MaxOps
    /\ \E url \in Urls, prefix \in Prefixes, tok \in RemoteTokens,
          pkgs \in PkgLists, fault \in Faults :
          \E r \in {insert_remote_repository(db, url, prefix, tok.mtime,
                                            tok.summary_suffix, pkgs, fault)} :
              /\ db' = r.d
              /\ lastCall' = Call("insert", "remote", url, prefix, tok, pkgs, fault, r)
    /\ nops' = nops + 1
    /\ UNCHANGED <<conn, streamVars, syncVars>>

UpdateLocal ==
    /\ conn /\ nops < MaxOps
    /\ \E prefix \in LocalKeys, tok \in LocalTokens, pkgs \in PkgLists, fault \in Faults :
          \E r \in {update_local_repository(db, prefix, tok.mtime, tok.ntime, pkgs, fault)} :
              /\ db' = r.d
              /\ lastCall' = Call("update", "local", prefix, prefix, tok, pkgs, fault, r)
    /\ nops' = nops + 1
    /\ UNCHANGED <<conn, streamVars, syncVars>>

UpdateRemote ==
    /\ conn /\ nops < MaxOps
    /\ \E url \in Urls, tok \in RemoteTokens, pkgs \in PkgLists, fault \in Faults :
          \E r \in {update_remote_repository(db, url, tok.mtime, tok.summary_suffix,
                                            pkgs, fault)} :
              /\ db' = r.d
              /\ lastCall' = Call("update", "remote", url, "", tok, pkgs, fault, r)
    /\ nops' = nops + 1
    /\ UNCHANGED <<conn, streamVars, syncVars>>

(* get_local_repository / get_remote_repository with a key of the domain:   *)
(* &self, one SELECT. The call record holds what was returned as its token. *)
Lookup ==
    /\ conn /\ nops < MaxOps
    /\ \E dom \in {"local", "remote"} :
          \E key \in (IF dom = "local" THEN LocalKeys ELSE Urls) :
              \E r \in {get_repository(db, dom, key)} :
                  lastCall' = Call("lookup", dom, key, "", r.repo, <<>>, 0,
                                   [ok |-> r.ok, left |-> 0])
    /\ nops' = nops + 1
    /\ UNCHANGED <<db, conn, streamVars, syncVars>>

(* get_local_pkgs_by_prefix / get_remote_pkgs_by_prefix: one SELECT. The    *)
(* call record holds the list returned as its packages.                      *)
List ==
    /\ conn /\ nops < MaxOps
    /\ \E dom \in {"local", "remote"} :
          \E prefix \in (IF dom = "local" THEN LocalKeys ELSE Prefixes) :
              \E r \in {get_pkgs_by_prefix(db, dom, prefix)} :
                  lastCall' = Call("list", dom, prefix, prefix, [mtime |-> 0], r.pkgs, 0,
                                   [ok |-> r.ok, left |-> 0])
    /\ nops' = nops + 1
    /\ UNCHANGED <<db, conn, streamVars, syncVars>>

StoreNext ==
    \/ Open
    \/ InsertLocal
    \/ InsertRemote
    \/ UpdateLocal
    \/ UpdateRemote
    \/ Lookup
    \/ List

SpecStore == StoreInit /\ [][StoreNext]_vars

-----------------------------------------------------------------------------
(* The stream splitter fed one document in chunks.                           *)

StreamInit ==
    /\ doc \in Docs
    /\ pos = 0
    /\ buf = <<>>           \* SummaryStream::new
    /\ entries = <<>>
    /\ status = "running"
    /\ StoreIdle
    /\ SyncIdle

(* The sizes of the next chunk when `left` bytes remain: up to MaxChunk      *)
(* bytes, or all that remains.                                               *)
ChunkSizes(left) == {n \in 1..left : n <= MaxChunk \/ n = left}

(* One call of write with the next n bytes of the document (std::io::copy   *)
(* hands the bytes over in order, one read of its buffer at a time).         *)
Write ==
    /\ status = "running"
    /\ \E n \in ChunkSizes(Len(doc) - pos) :
          \E r \in {write(buf, entries, SubSeq(doc, pos + 1, pos + n))} :
              /\ buf' = r.buf
              /\ entries' = r.entries
              /\ status' = IF r.res = "panic" THEN "panicked" ELSE "running"
              /\ pos' = pos + n
    /\ UNCHANGED doc
    /\ UNCHANGED <<storeVars, syncVars>>

StreamNext == Write

SpecStream == StreamInit /\ [][StreamNext]_vars

-----------------------------------------------------------------------------
(* The pipeline of one new target: a document is slurped in chunks, then    *)
(* the entries of the stream are inserted into a created store.              *)

IngestInit ==
    /\ doc \in Docs
    /\ pos = 0
    /\ buf = <<>>
    /\ entries = <<>>
    /\ status = "running"
    /\ db = create_default_tables(NoTables, DB_VERSION, 0).d
    /\ conn = TRUE
    /\ lastCall = NoCall
    /\ nops = 0
    /\ SyncIdle

(* After slurp returned: db.insert_local_repository(.., sumstr.entries())   *)
(* for the local target, db.insert_remote_repository for a repository.      *)
StoreEntries ==
    /\ status = "running" /\ pos = Len(doc) /\ nops = 0
    /\ \E fault \in SyncFaults :
          \/ \E tok \in {[mtime |-> 1, ntime |-> 0]} :
                \E r \in {insert_local_repository(db, PkgDbDir, tok.mtime, tok.ntime,
                                                  entries, fault)} :
                    /\ db' = r.d
                    /\ lastCall' = Call("insert", "local", PkgDbDir, PkgDbDir, tok,
                                        entries, fault, r)
          \/ \E tok \in {[mtime |-> 1, summary_suffix |-> "gz"]} :
                \E r \in {insert_remote_repository(db, Repos[1].url, Repos[1].prefix,
                                                   tok.mtime, tok.summary_suffix,
                                                   entries, fault)} :
                    /\ db' = r.d
                    /\ lastCall' = Call("insert", "remote", Repos[1].url, Repos[1].prefix,
                                        tok, entries, fault, r)
    /\ nops' = nops + 1
    /\ UNCHANGED <<conn, streamVars, syncVars>>

IngestNext ==
    \/ Write
    \/ StoreEntries

SpecIngest == IngestInit /\ [][IngestNext]_vars

-----------------------------------------------------------------------------
(* "pm update": update.rs.                                                   *)

(* A comparison that reads mtime where ntime is meant.                       *)
local_up_to_date_Typo(r, mtime, ntime) == r.mtime = mtime /\ r.ntime = mtime

(* LocalRepository::up_to_date                                               *)
local_up_to_date(r, mtime, ntime) == r.mtime = mtime /\ r.ntime = ntime

(* A comparison of the timestamp alone.                                      *)
remote_up_to_date_TimeOnly(r, mtime, summary_suffix) == r.mtime = mtime

(* RemoteRepository::up_to_date                                              *)
remote_up_to_date(r, mtime, summary_suffix) ==
    r.mtime = mtime /\ r.summary_suffix = summary_suffix

(* A list that ignores the configured extension.                             *)
get_summary_extensions_Default(repo) == <<"xz", "bz2", "gz">>

get_summary_extensions(repo) ==
    IF repo.summary_extension # <<>> THEN <<repo.summary_extension[1]>>
    ELSE <<"xz", "bz2", "gz">>

(* SummaryStream::slurp: the decoded body is copied into a new stream; the  *)
(* bodies of the model fit one read of io::copy.                             *)
slurp(sumext, body, io) ==
    IF sumext \in {"xz", "bz2", "gz"}
    THEN IF io = "io_err" THEN [res |-> "Err", entries |-> <<>>]
         ELSE Bind(write(<<>>, <<>>, body), LAMBDA w :
                  [res |-> w.res, entries |-> w.entries])
    ELSE [res |-> "panic", entries |-> <<>>]

(* get_local_packages: expect panics when pkg_info cannot be spawned.       *)
get_local_packages(env) ==
    IF env.info = "fail" THEN [res |-> "panic", entries |-> <<>>]
    ELSE IF env.info = "io_err" THEN [res |-> "Err", entries |-> <<>>]
    ELSE Bind(write(<<>>, <<>>, env.doc), LAMBDA w :
             [res |-> w.res, entries |-> w.entries])

(* What the processing of one target did: the database after it, how it     *)
(* left (Ok, Err by `?`, panic), and its log entry.                         *)
Outcome(d, res, state, observed, slurped, wrote) ==
    [d |-> d, res |-> res, entry |-> LogEntry(state, observed, slurped, wrote)]

(* The tail shared by both kinds of target once the token is known not to   *)
(* be stored: pkgs is the ingested document, update tells which write.      *)
store_packages(d, pkgs, tok, update, StoreWrite(_)) ==
    IF pkgs.res = "panic" THEN Outcome(d, "panic", "panicked", <<tok>>, TRUE, "none")
    ELSE IF pkgs.res = "Err" THEN Outcome(d, "Err", "failed", <<tok>>, TRUE, "none")
    ELSE Bind(StoreWrite(pkgs.entries), LAMBDA w :
            IF w.ok
            THEN Outcome(w.d, "Ok", IF update THEN "refreshed" ELSE "created",
                         <<tok>>, TRUE, IF update THEN "update" ELSE "insert")
            ELSE Outcome(w.d, "Err", "failed",
                         <<tok>>, TRUE, IF update THEN "update" ELSE "insert"))

(* update_local_repository                                                   *)
sync_local(d, env) ==
    IF env.admin = "fail" THEN Outcome(d, "panic", "panicked", <<>>, FALSE, "none")
    ELSE IF env.meta = "err" THEN Outcome(d, "Err", "failed", <<>>, FALSE, "none")
    ELSE Bind(get_repository(d, "local", PkgDbDir), LAMBDA r :
        IF ~r.ok THEN Outcome(d, "Err", "failed", <<env.tok>>, FALSE, "none")
        ELSE IF r.repo # <<>>
        THEN IF local_up_to_date(r.repo[1], env.tok.mtime, env.tok.ntime)
             THEN Outcome(d, "Ok", "up_to_date", <<env.tok>>, FALSE, "none")
             ELSE store_packages(d, get_local_packages(env), env.tok, TRUE,
                    LAMBDA es : update_local_repository(d, PkgDbDir, env.tok.mtime,
                                                        env.tok.ntime, es, env.fault))
        ELSE store_packages(d, get_local_packages(env), env.tok, FALSE,
                    LAMBDA es : insert_local_repository(d, PkgDbDir, env.tok.mtime,
                                                        env.tok.ntime, es, env.fault)))

(* The outcome o of a repository for which the first n suffixes of exts     *)
(* were requested.                                                           *)
Requested(o, exts, n, env) ==
    [o EXCEPT !.entry.requested =
        [i \in 1..n |-> [suffix |-> exts[i], answer |-> env.resp[exts[i]]]]]

(* The outcome o of a target, with whether the document it began to ingest  *)
(* decodes as text.                                                          *)
Decoded(o, env) ==
    [o EXCEPT !.entry.text = IF o.entry.slurped THEN from_utf8(env.doc) ELSE TRUE]

(* The outcome o of the local target, with the marker files there were      *)
(* when the packages were enumerated.                                        *)
Marked(o, env) ==
    [o EXCEPT !.entry.marked = IF o.entry.slurped THEN env.marked ELSE {}]

(* A loop body that empties the stored repository before it ingests the    *)
(* document.                                                                 *)
OnSummary_WriteFirst(d, repo, e, tok, env) ==
    Bind(get_repository(d, "remote", repo.url), LAMBDA r :
        IF ~r.ok THEN Outcome(d, "Err", "failed", <<tok>>, FALSE, "none")
        ELSE IF r.repo # <<>>
        THEN IF remote_up_to_date(r.repo[1], env.lm, e)
             THEN Outcome(d, "Ok", "up_to_date", <<tok>>, FALSE, "none")
             ELSE Bind(update_remote_repository(d, repo.url, env.lm, e, <<>>, 0).d,
                       LAMBDA d1 :
                    store_packages(d1, slurp(e, env.doc, env.io), tok, TRUE,
                        LAMBDA es : update_remote_repository(
                                        d1, repo.url, env.lm, e, es, env.fault)))
        ELSE store_packages(d, slurp(e, env.doc, env.io), tok, FALSE,
                    LAMBDA es : insert_remote_repository(
                                    d, repo.url, repo.prefix, env.lm, e,
                                    es, env.fault)))

(* The rest of update_remote_repositories' inner loop once suffix e gave a  *)
(* document with a Last-Modified: compare with the store, ingest, write.    *)
OnSummary(d, repo, e, tok, env) ==
    Bind(get_repository(d, "remote", repo.url), LAMBDA r :
        IF ~r.ok THEN Outcome(d, "Err", "failed", <<tok>>, FALSE, "none")
        ELSE IF r.repo # <<>>
        THEN IF remote_up_to_date(r.repo[1], env.lm, e)
             THEN Outcome(d, "Ok", "up_to_date", <<tok>>, FALSE, "none")
             ELSE store_packages(d, slurp(e, env.doc, env.io), tok, TRUE,
                    LAMBDA es : update_remote_repository(
                                    d, repo.url, env.lm, e, es, env.fault))
        ELSE store_packages(d, slurp(e, env.doc, env.io), tok, FALSE,
                    LAMBDA es : insert_remote_repository(
                                    d, repo.url, repo.prefix, env.lm, e,
                                    es, env.fault)))

(* The body of `for repo in repos`: the suffixes of exts from number k on.  *)
RECURSIVE sync_remote(_, _, _, _, _)
sync_remote(d, repo, exts, k, env) ==
    IF k > Len(exts)
    THEN Requested(Outcome(d, "Ok", "no_summary", <<>>, FALSE, "none"), exts, Len(exts), env)
    ELSE LET e == exts[k]
             tok == [mtime |-> env.lm, summary_suffix |-> e]
         IN  CASE env.resp[e] = "send_err" ->
                    Requested(Outcome(d, "Err", "failed", <<>>, FALSE, "none"), exts, k, env)
               [] env.resp[e] \in {"not_found", "no_lm"} ->
                    sync_remote(d, repo, exts, k + 1, env)
               [] env.resp[e] = "bad_lm" ->
                    Requested(Outcome(d, "Err", "failed", <<>>, FALSE, "none"), exts, k, env)
               [] env.resp[e] = "ok" ->
                    Requested(OnSummary(d, repo, e, tok, env), exts, k, env)

SyncInit ==
    /\ db \in SyncStores
    /\ conn = FALSE
    /\ lastCall = NoCall
    /\ nops = 0
    /\ doc = <<>> /\ pos = 0 /\ buf = <<>> /\ entries = <<>> /\ status = "running"
    /\ SyncIdle

(* main: a new process opens the store and calls update::run, or exits on   *)
(* the error of PMDB::new.                                                   *)
StartRun ==
    /\ result # "running" /\ runs < MaxRuns
    /\ \E fault \in {0, 1} :
          \E r \in {new(db, DB_VERSION, fault)} :
              /\ db' = r.d
              /\ conn' = r.ok
              /\ result' = IF r.ok THEN "running" ELSE "Err"
    /\ runs' = runs + 1
    /\ target' = 0
    /\ prev' = [t \in Targets |->
                  IF Stored(log[t])
                  THEN LogEntry(log[t].state, log[t].observed, log[t].slurped, log[t].wrote)
                  ELSE PendingLog[t]]
    /\ log' = PendingLog
    /\ UNCHANGED <<lastCall, nops, streamVars>>

(* The target was processed with outcome o: on Ok run goes on to the next   *)
(* target, on Err `?` returns from run and the process exits.                *)
Processed(o) ==
    /\ db' = o.d
    /\ log' = [log EXCEPT ![target] = o.entry]
    /\ result' = IF o.res = "Ok" THEN "running" ELSE o.res
    /\ conn' = (o.res = "Ok")
    /\ target' = IF o.res = "Ok" THEN target + 1 ELSE target
    /\ UNCHANGED <<runs, prev, lastCall, nops, streamVars>>

(* run: update_local_repository(&cfg, db)?                                   *)
SyncLocal ==
    /\ result = "running" /\ target = 0
    /\ \E env \in LocalEnvs : \E o \in {Decoded(Marked(sync_local(db, env), env), env)} : Processed(o)

(* One iteration of `for repo in repos` of update_remote_repositories.      *)
SyncRemote ==
    /\ result = "running" /\ target \in 1..Len(Repos)
    /\ \E env \in RemoteEnvs :
          \E o \in {Decoded(sync_remote(db, Repos[target],
                                         get_summary_extensions(Repos[target]), 1, env),
                             env)} :
              Processed(o)

(* run: Ok(()) after the last repository; the process exits.                *)
EndRun ==
    /\ result = "running" /\ target = Len(Repos) + 1
    /\ result' = "Ok"
    /\ conn' = FALSE
    /\ UNCHANGED <<db, runs, target, log, prev, lastCall, nops, streamVars>>

SyncNext ==
    \/ StartRun
    \/ SyncLocal
    \/ SyncRemote
    \/ EndRun

SpecSync == SyncInit /\ [][SyncNext]_vars

-----------------------------------------------------------------------------
(* Properties of the stream splitter and the record parser.                  *)

(* The run has written the whole document and no write has aborted.         *)
StreamDoneOk == status = "running" /\ pos = Len(doc)

(* The stream after one write of the whole document.                         *)
WholeDocument == write(<<>>, <<>>, doc)

(* C1: chunking invariance.  Once the chunked run has ended (every byte     *)
(* written, or a write aborted), it has aborted exactly when one write of   *)
(* the whole document aborts, and when neither aborts the entries are the   *)
(* same sequence.                                                            *)
C1_ChunkingInvariance ==
    (pos = Len(doc) \/ status = "panicked") =>
        /\ (status = "panicked") <=> (WholeDocument.res = "panic")
        /\ status = "running" => entries = WholeDocument.entries

(* The complete records of the document, as text: what precedes its last    *)
(* double line-break, cut at the double line-breaks.                         *)
DocRecords ==
    IF rfind(doc) = 0 THEN <<>>
    ELSE split_terminator(SubSeq(doc, 1, rfind(doc) + 1), <<LF, LF>>)

(* The values of the lines KEY=value of a record whose KEY is k, in order.  *)
FieldValues(rec, k) ==
    LET ls == lines(rec)
        IsK(l) == Len(splitn2(l)) = 2 /\ splitn2(l)[1] = <<k>>
        ks == SelectSeq(ls, IsK)
    IN  [i \in 1..Len(ks) |-> splitn2(ks[i])[2]]

(* The record gives key k, and the last value it gives is not empty.        *)
GivesNonEmpty(rec, k) ==
    LET vs == FieldValues(rec, k) IN vs # <<>> /\ vs[Len(vs)] # <<>>

(* The record has at least one line for key k.                               *)
Gives(rec, k) == FieldValues(rec, k) # <<>>

(* An entry with the record's package identifier is among the entries.      *)
Present(rec) ==
    /\ Gives(rec, "PKGNAME")
    /\ \E i \in 1..Len(entries) :
          entries[i].pkgname = FieldValues(rec, "PKGNAME")[Len(FieldValues(rec, "PKGNAME"))]

(* The required fields as the specification lists them.                      *)
ListedRequired(rec) ==
    /\ \A k \in {"BUILD_DATE", "COMMENT", "PKGNAME", "PKGPATH", "PKGTOOLS_VERSION",
                 "OPSYS", "OS_VERSION", "MACHINE_ARCH"} : GivesNonEmpty(rec, k)
    /\ Gives(rec, "SIZE_PKG")

(* The required fields of pkg_summary(5): the listed ones, and at least one *)
(* CATEGORIES line and one DESCRIPTION line.                                 *)
SummaryRequired(rec) ==
    /\ ListedRequired(rec)
    /\ Gives(rec, "CATEGORIES")
    /\ Gives(rec, "DESCRIPTION")

(* C10 as stated: after a run that returned normally, a record is among the *)
(* entries iff build date, comment, package identifier, package path,       *)
(* tooling version, operating system name and version and machine           *)
(* architecture are given and not empty and the size is given.              *)
C10_ValidationAsListed ==
    StreamDoneOk =>
        \A i \in 1..Len(DocRecords) :
            Present(DocRecords[i]) <=> ListedRequired(DocRecords[i])

(* C10 amended: after a run that returned normally, a record is among the   *)
(* entries iff the listed fields are given as above and the record also has *)
(* at least one CATEGORIES and one DESCRIPTION line; there is one entry per *)
(* such record.                                                              *)
C10_ValidationCompleteness ==
    StreamDoneOk =>
        /\ \A i \in 1..Len(DocRecords) :
              Present(DocRecords[i]) <=> SummaryRequired(DocRecords[i])
        /\ Len(entries) =
              Cardinality({i \in 1..Len(DocRecords) : SummaryRequired(DocRecords[i])})

(* C10 witness: a finished run over a document with a record that is        *)
(* present and a record that lacks exactly the size and is absent.          *)
C10_Witness ==
    /\ StreamDoneOk
    /\ \E i, j \in 1..Len(DocRecords) :
          /\ SummaryRequired(DocRecords[i]) /\ Present(DocRecords[i])
          /\ GivesNonEmpty(DocRecords[j], "PKGNAME")
          /\ ~Gives(DocRecords[j], "SIZE_PKG")
          /\ ~Present(DocRecords[j])

(* The chunked run has ended: every byte written, or a write aborted.       *)
RunEnded == pos = Len(doc) \/ status = "panicked"

(* The document holds no byte of a multi-byte character.                     *)
AsciiDoc == \A k \in 1..Len(doc) : doc[k] \notin {"C3", "A9"}

(* Every FILE_SIZE and SIZE_PKG value of the complete records is an         *)
(* integer.                                                                  *)
NumbersParse ==
    \A i \in 1..Len(DocRecords) : \A k \in {"FILE_SIZE", "SIZE_PKG"} :
        \A j \in 1..Len(FieldValues(DocRecords[i], k)) :
            parse_i64(FieldValues(DocRecords[i], k)[j]).ok

(* The record is one of the well-formed records: every required line, each  *)
(* with a value, and nothing else.                                           *)
IsWellFormedRecord(rec) ==
    \E i \in 1..Len(Letters) : rec \o <<LF>> = RecordLines(WellFormed, i, 1)

(* C11: a bad record never aborts the batch.  Once the run over a document  *)
(* of ASCII bytes whose sizes are integers has ended, no write has aborted  *)
(* and every well-formed record of the document is among the entries,       *)
(* whatever bad records (a missing field, an unknown key, a line without    *)
(* '=', a PKGNAME without hyphen) precede it.                                *)
C11_BadRecordNeverAborts ==
    (RunEnded /\ AsciiDoc /\ NumbersParse) =>
        /\ status = "running"
        /\ \A i \in 1..Len(DocRecords) :
              IsWellFormedRecord(DocRecords[i]) => Present(DocRecords[i])

(* What follows the last double line-break of the document; the document    *)
(* when it has none.                                                         *)
TailBytes ==
    IF rfind(doc) = 0 THEN doc ELSE SubSeq(doc, rfind(doc) + 2, Len(doc))

(* Records are separated by one blank line: no three line-breaks in a row.  *)
NoTripleLF ==
    \A k \in 1..(Len(doc) - 2) : ~(doc[k] = LF /\ doc[k + 1] = LF /\ doc[k + 2] = LF)

(* C12: after a run that returned normally over a document whose records    *)
(* are separated by one blank line, the buffer holds exactly the bytes      *)
(* after the last blank line, there is one entry per valid complete record, *)
(* each of them present, and no entry carries the package identifier of the *)
(* trailing record.                                                          *)
C12_TruncatedTail ==
    (StreamDoneOk /\ NoTripleLF) =>
        /\ buf = TailBytes
        /\ Len(entries) =
              Cardinality({i \in 1..Len(DocRecords) : SummaryRequired(DocRecords[i])})
        /\ \A i \in 1..Len(DocRecords) :
              SummaryRequired(DocRecords[i]) => Present(DocRecords[i])
        /\ \A i \in 1..Len(entries) : \A j \in 1..Len(FieldValues(TailBytes, "PKGNAME")) :
              entries[i].pkgname # FieldValues(TailBytes, "PKGNAME")[j]

(* C12 witness: two complete records were parsed and the truncated third    *)
(* record, which names a package, is what the buffer holds.                  *)
C12_Witness ==
    /\ StreamDoneOk /\ NoTripleLF
    /\ Len(DocRecords) = 2 /\ Len(entries) = 2
    /\ buf = TailBytes
    /\ Gives(buf, "PKGNAME")

(* C16: the base name of every entry is the text of its package identifier  *)
(* before the rightmost hyphen and its version the text after it: the       *)
(* version holds no hyphen, and base, hyphen and version make up the         *)
(* identifier.                                                               *)
C16_IdentifierSplit ==
    \A i \in 1..Len(entries) :
        /\ entries[i].pkgbase \o <<"-">> \o entries[i].pkgversion = entries[i].pkgname
        /\ \A k \in 1..Len(entries[i].pkgversion) : entries[i].pkgversion[k] # "-"

(* An entry whose identifier holds two hyphens was split after the second.  *)
C16_Witness ==
    \E i \in 1..Len(entries) :
        /\ entries[i].pkgname = <<"a", "-", "b", "-", "1">>
        /\ entries[i].pkgbase = <<"a", "-", "b">>
        /\ entries[i].pkgversion = <<"1">>

(* C20: a write after which the bytes accumulated hold no double line-break *)
(* returns normally, with the chunk appended to the buffer and the entries  *)
(* as they were.                                                             *)
C20_NoBoundaryWriteReturns ==
    [][ (pos' > pos /\ rfind(buf \o SubSeq(doc, pos + 1, pos')) = 0) =>
          /\ status' = "running"
          /\ buf' = buf \o SubSeq(doc, pos + 1, pos')
          /\ entries' = entries
      ]_vars

(* The row holds the last value the record gives for its identifier and     *)
(* for its comment.                                                          *)
RowOf(row, rec) ==
    /\ Gives(rec, "PKGNAME") /\ Gives(rec, "COMMENT")
    /\ row.pkgname = FieldValues(rec, "PKGNAME")[Len(FieldValues(rec, "PKGNAME"))]
    /\ row.comment = FieldValues(rec, "COMMENT")[Len(FieldValues(rec, "COMMENT"))]

(* The package rows of both domains.                                         *)
PkgRows == db.rows[PkgTable("local")] \cup db.rows[PkgTable("remote")]

(* C17: in every state of the pipeline each package row of the store holds  *)
(* a non-empty build date, comment, identifier, path, tooling version,      *)
(* operating system name and version, and a size, and is the row of a       *)
(* record of the document that gives every required field.                   *)
C17_OnlyValidStored ==
    \A row \in PkgRows :
        /\ \A f \in {"build_date", "comment", "pkgname", "pkgpath", "pkgtools_version",
                      "opsys", "os_version"} : row[f] # <<>>
        /\ row.size_pkg \in Int
        /\ \E i \in 1..Len(DocRecords) :
              RowOf(row, DocRecords[i]) /\ SummaryRequired(DocRecords[i])

(* The entries of a document with a valid record and a record without its   *)
(* comment were stored: the store holds a row, and none for the second.     *)
C17_Witness ==
    /\ nops = 1 /\ lastCall.ok
    /\ PkgRows # {}
    /\ \E j \in 1..Len(DocRecords) :
          /\ GivesNonEmpty(DocRecords[j], "PKGNAME")
          /\ ~GivesNonEmpty(DocRecords[j], "COMMENT")
          /\ \A row \in PkgRows :
                row.pkgname # FieldValues(DocRecords[j], "PKGNAME")[1]

(* C21: no parsed entry and no stored package row holds a negative size:    *)
(* SIZE_PKG and FILE_SIZE, where given, are at least 0.                      *)
C21_SizesNonNegative ==
    /\ \A i \in 1..Len(entries) :
          /\ entries[i].size_pkg # <<>> => entries[i].size_pkg[1] >= 0
          /\ entries[i].file_size # <<>> => entries[i].file_size[1] >= 0
    /\ \A row \in PkgRows :
          /\ row.size_pkg >= 0
          /\ "file_size" \in DOMAIN row => row.file_size >= 0

(* Every line of the complete records holds a '='.                          *)
AllLinesKeyed ==
    \A i \in 1..Len(DocRecords) : \A j \in 1..Len(lines(DocRecords[i])) :
        Len(splitn2(lines(DocRecords[i])[j])) = 2

(* The text is an integer in decimal: digits, after an optional sign.       *)
IsInteger(v) ==
    LET digits == IF v # <<>> /\ v[1] \in {"-", "+"} THEN Tail(v) ELSE v
    IN  /\ digits # <<>>
        /\ \A i \in 1..Len(digits) :
              digits[i] \in {"0", "1", "2", "3", "4", "5", "6", "7", "8", "9"}

(* The record has a FILE_SIZE or SIZE_PKG line whose value is no integer.   *)
BadNumber(rec) ==
    \E k \in {"FILE_SIZE", "SIZE_PKG"} : \E j \in 1..Len(FieldValues(rec, k)) :
        ~IsInteger(FieldValues(rec, k)[j])

(* The record has a PKGNAME line whose value holds no hyphen.                *)
NoHyphen(rec) ==
    \E j \in 1..Len(FieldValues(rec, "PKGNAME")) :
        \A k \in 1..Len(FieldValues(rec, "PKGNAME")[j]) :
            FieldValues(rec, "PKGNAME")[j][k] # "-"

RecognizedKeys ==
    {"BUILD_DATE", "CATEGORIES", "COMMENT", "CONFLICTS", "DEPENDS", "DESCRIPTION",
     "FILE_CKSUM", "FILE_NAME", "FILE_SIZE", "HOMEPAGE", "LICENSE", "MACHINE_ARCH",
     "OPSYS", "OS_VERSION", "PKG_OPTIONS", "PKGNAME", "PKGPATH", "PKGTOOLS_VERSION",
     "PREV_PKGPATH", "PROVIDES", "REQUIRES", "SIZE_PKG", "SUPERSEDES"}

(* The line is KEY=value with a key that is not recognized.                  *)
UnknownKeyLine(l) ==
    /\ Len(splitn2(l)) = 2
    /\ \A k \in RecognizedKeys : splitn2(l)[1] # <<k>>

(* The number of lines of the record with an unrecognized key.              *)
UnknownLines(rec) ==
    Cardinality({j \in 1..Len(lines(rec)) : UnknownKeyLine(lines(rec)[j])})

(* The record without its lines of unrecognized keys, as text.               *)
RECURSIVE Unlines(_)
Unlines(ls) == IF ls = <<>> THEN <<>> ELSE Head(ls) \o <<LF>> \o Unlines(Tail(ls))
WithoutUnknown(rec) ==
    LET IsKnown(l) == ~UnknownKeyLine(l) IN Unlines(SelectSeq(lines(rec), IsKnown))

(* C23: after a run that returned normally, a complete record that gives    *)
(* every required field and holds lines of unrecognized keys is among the   *)
(* entries, and its entry is the entry of the record without those lines.   *)
C23_UnknownKeysTolerated ==
    (StreamDoneOk /\ NoTripleLF) =>
        \A i \in 1..Len(DocRecords) :
            (SummaryRequired(DocRecords[i]) /\ UnknownLines(DocRecords[i]) > 0) =>
                \E j \in 1..Len(entries) :
                    /\ entries[j].pkgname
                         = FieldValues(DocRecords[i], "PKGNAME")[
                               Len(FieldValues(DocRecords[i], "PKGNAME"))]
                    /\ entries[j] = write(<<>>, <<>>,
                                          WithoutUnknown(DocRecords[i]) \o <<LF>>).entries[1]

(* A record with two lines of unrecognized keys is among the entries.       *)
C23_Witness ==
    /\ StreamDoneOk /\ NoTripleLF
    /\ \E i \in 1..Len(DocRecords) :
          /\ UnknownLines(DocRecords[i]) = 2
          /\ SummaryRequired(DocRecords[i])
          /\ Present(DocRecords[i])

(* The last value of a sequence of values, as an Option.                     *)
LastOf(vs) == IF vs = <<>> THEN <<>> ELSE <<vs[Len(vs)]>>

(* The text of a last value: empty when none was given.                      *)
LastText(vs) == IF vs = <<>> THEN <<>> ELSE vs[Len(vs)]

(* The entry holds, for each multi-valued key, the values of the record's   *)
(* lines in line order, and for each scalar text key the last value given.  *)
AgreesWith(e, rec) ==
    /\ e.categories = FieldValues(rec, "CATEGORIES")
    /\ e.description = FieldValues(rec, "DESCRIPTION")
    /\ e.conflicts = FieldValues(rec, "CONFLICTS")
    /\ e.depends = FieldValues(rec, "DEPENDS")
    /\ e.provides = FieldValues(rec, "PROVIDES")
    /\ e.requires = FieldValues(rec, "REQUIRES")
    /\ e.supersedes = FieldValues(rec, "SUPERSEDES")
    /\ e.build_date = LastText(FieldValues(rec, "BUILD_DATE"))
    /\ e.comment = LastText(FieldValues(rec, "COMMENT"))
    /\ e.machine_arch = LastText(FieldValues(rec, "MACHINE_ARCH"))
    /\ e.opsys = LastText(FieldValues(rec, "OPSYS"))
    /\ e.os_version = LastText(FieldValues(rec, "OS_VERSION"))
    /\ e.pkgname = LastText(FieldValues(rec, "PKGNAME"))
    /\ e.pkgpath = LastText(FieldValues(rec, "PKGPATH"))
    /\ e.pkgtools_version = LastText(FieldValues(rec, "PKGTOOLS_VERSION"))
    /\ e.file_cksum = LastOf(FieldValues(rec, "FILE_CKSUM"))
    /\ e.file_name = LastOf(FieldValues(rec, "FILE_NAME"))
    /\ e.homepage = LastOf(FieldValues(rec, "HOMEPAGE"))
    /\ e.license = LastOf(FieldValues(rec, "LICENSE"))
    /\ e.pkg_options = LastOf(FieldValues(rec, "PKG_OPTIONS"))
    /\ e.prev_pkgpath = LastOf(FieldValues(rec, "PREV_PKGPATH"))
    /\ e.size_pkg # <<>> /\ IsInteger(LastText(FieldValues(rec, "SIZE_PKG")))
    /\ e.size_pkg[1] = parse_i64(LastText(FieldValues(rec, "SIZE_PKG"))).v

(* C24: after a run that returned normally, every complete record that      *)
(* gives every required field has an entry that holds, for each             *)
(* multi-valued key, the values of its lines in line order and, for each    *)
(* scalar key, the last value given; a repeated scalar key loses no record. *)
C24_AppendAndOverwrite ==
    (StreamDoneOk /\ NoTripleLF) =>
        \A i \in 1..Len(DocRecords) :
            SummaryRequired(DocRecords[i]) =>
                \E j \in 1..Len(entries) : AgreesWith(entries[j], DocRecords[i])

(* An entry holds both values of a key given on two lines, in line order;   *)
(* in another document an entry holds the second of two comments.           *)
C24_Witness ==
    /\ StreamDoneOk /\ NoTripleLF
    /\ \E i \in 1..Len(DocRecords) : \E j \in 1..Len(entries) :
          /\ AgreesWith(entries[j], DocRecords[i])
          /\ \/ Len(FieldValues(DocRecords[i], "DEPENDS")) = 2
                 /\ entries[j].depends = <<<<"a">>, <<"b">>>>
             \/ Len(FieldValues(DocRecords[i], "COMMENT")) = 2
                 /\ entries[j].comment = <<"b">>

(* The bytes written so far.                                                 *)
Written == SubSeq(doc, 1, pos)

(* What follows the last double line-break of the bytes written so far; all *)
(* of them when they hold none.                                              *)
WrittenTail ==
    IF rfind(Written) = 0 THEN Written
    ELSE SubSeq(Written, rfind(Written) + 2, Len(Written))

(* C30: after every write that returned, the buffer holds no double         *)
(* line-break and is exactly what follows the last double line-break of the *)
(* bytes written so far.                                                     *)
C30_BufferIsTail ==
    status = "running" =>
        /\ rfind(buf) = 0
        /\ buf = WrittenTail

(* Where the last double line-break of s begins, 0 when s holds none.       *)
LastBreak(s) ==
    LET I == {i \in 1..(Len(s) - 1) : s[i] = LF /\ s[i + 1] = LF}
    IN  IF I = {} THEN 0 ELSE Max(I)

(* What follows the last double line-break of s; s when it holds none.      *)
AfterLastBreak(s) ==
    IF LastBreak(s) = 0 THEN s ELSE SubSeq(s, LastBreak(s) + 2, Len(s))

(* C30, amended: after every write that returned, the buffer holds no       *)
(* double line-break: it is exactly what follows the last double line-break *)
(* of the buffer the write worked on, the bytes retained before with the    *)
(* chunk appended (all of it when it holds none).                            *)
C30_BufferIsTailOfBuffer ==
    [][ (pos' > pos /\ status' = "running") =>
          /\ LastBreak(buf') = 0
          /\ buf' = AfterLastBreak(buf \o SubSeq(doc, pos + 1, pos'))
      ]_vars

(* In the middle of a run, after a write that cut the buffer, the buffer    *)
(* holds the bytes of the record that follows the last double line-break.   *)
C30_Witness ==
    /\ status = "running" /\ 0 < pos /\ pos < Len(doc)
    /\ LastBreak(Written) # 0
    /\ buf # <<>> /\ buf = AfterLastBreak(Written)
    /\ entries # <<>>


(* The chunk a write step handed over, the buffer the write worked on and   *)
(* the part of it that the buffer after the write no longer holds: what     *)
(* the write gave to the record parser.                                      *)
Chunk == SubSeq(doc, pos + 1, pos')
Worked == buf \o Chunk
Handed == SubSeq(Worked, 1, Len(Worked) - Len(buf'))

(* C31: no input byte is lost or parsed twice.  In every write that         *)
(* returns, the bytes given to the record parser followed by the buffer     *)
(* after the write are the buffer before it followed by the chunk; what was *)
(* given to the parser is empty or ends with a double line-break, and the   *)
(* entries after the write are the entries before it with those of the      *)
(* records given; the buffer is the end of the bytes written so far; and    *)
(* the write reports the length of the chunk.                                *)
C31_NoByteLostOrTwice ==
    [][ (pos' > pos /\ status' = "running") =>
          /\ Len(buf') <= Len(Worked)
          /\ Handed \o buf' = Worked
          /\ Handed # <<>> => SubSeq(Handed, Len(Handed) - 1, Len(Handed)) = <<LF, LF>>
          /\ entries' = parse_records(entries, split_terminator(Handed, <<LF, LF>>), 1).entries
          /\ buf' = SubSeq(doc, pos' - Len(buf') + 1, pos')
          /\ write(buf, entries, Chunk).n = Len(Chunk)
      ]_vars

(* A document longer than a chunk has been written whole, every write      *)
(* returned, records were parsed into entries and an incomplete record is   *)
(* left in the buffer.                                                       *)
C31_Witness ==
    /\ status = "running" /\ pos = Len(doc) /\ Len(doc) > MaxChunk
    /\ entries # <<>>
    /\ buf # <<>> /\ buf # doc
    /\ buf = SubSeq(doc, Len(doc) - Len(buf) + 1, Len(doc))


(* The entries of es are entries of records of the document, taken in the   *)
(* order of the records: entry k is what record f[k] parses to, for an      *)
(* increasing f.                                                             *)
InRecordOrder(es) ==
    \E f \in [1..Len(es) -> 1..Len(DocRecords)] :
        /\ \A j, k \in 1..Len(es) : j < k => f[j] < f[k]
        /\ \A k \in 1..Len(es) : es[k] = parse_record(DocRecords[f[k]]).sum

(* C32: the entry list only grows.  Every write leaves the entries it found *)
(* where they were, unchanged, as the beginning of the list after it, and   *)
(* the entries of the list are in the order of their records in the         *)
(* document.                                                                 *)
C32_EntriesOnlyGrow ==
    [][ /\ Len(entries') >= Len(entries)
        /\ SubSeq(entries', 1, Len(entries)) = entries
        /\ InRecordOrder(entries')
      ]_vars

(* Two writes have each added an entry (no chunk before the end of the      *)
(* document is long enough to hold the ends of two records) and the entry   *)
(* of the first record stands before the entry of the second.               *)
C32_Witness ==
    /\ status = "running" /\ pos < Len(doc)
    /\ Len(entries) = 2 /\ Len(DocRecords) = 2
    /\ entries[1] = parse_record(DocRecords[1]).sum
    /\ entries[2] = parse_record(DocRecords[2]).sum
    /\ entries[1].pkgname # entries[2].pkgname

-----------------------------------------------------------------------------
(* Properties of the store.                                                  *)

(* The step is a call of the store API.                                      *)
IsCall(op) == nops' = nops + 1 /\ lastCall'.op = op

(* What the store's read operations return: the lookup of every key and the *)
(* list of every prefix, in both domains.                                    *)
Readable(d) ==
    [lookup |-> [dom \in {"local", "remote"} |->
                    [k \in LocalKeys \cup Urls |-> get_repository(d, dom, k)]],
     list |-> [dom \in {"local", "remote"} |->
                    [p \in LocalKeys \cup Prefixes |-> get_pkgs_by_prefix(d, dom, p)]]]

WithoutId(r) == [f \in DOMAIN r \ {"id"} |-> r[f]]

OwnedPkgs(d, dom, repository_id) ==
    {r \in d.rows[PkgTable(dom)] : r.repository_id = repository_id}

OwnedValues(d, dom, kind, repository_id) ==
    {r \in d.rows[SatelliteTable(dom, kind)] : r.repository_id = repository_id}

(* The rows repository `key` owns are exactly those of the entries es: one  *)
(* package row per entry, and for each kind one satellite row per value,    *)
(* tied to the repository and to the package row of its entry.              *)
OwnsExactly(d, dom, key, es) ==
    /\ Cardinality(RepositoryRows(d, dom, key)) = 1
    /\ LET id == (CHOOSE r \in RepositoryRows(d, dom, key) : TRUE).id
           pkgs == OwnedPkgs(d, dom, id)
       IN  /\ Cardinality(pkgs) = Len(es)
           /\ {WithoutId(r) : r \in pkgs} = {PkgRow(dom, id, es[i]) : i \in 1..Len(es)}
           /\ \A k \in 1..Len(SatelliteKinds) :
                 LET kind == SatelliteKinds[k]
                     vals == OwnedValues(d, dom, kind, id)
                     want == {<<i, j>> \in (1..Len(es)) \X (1..4) : j <= Len(es[i][kind])}
                 IN  /\ Cardinality(vals) = Cardinality(want)
                     /\ \A r \in vals : \E q \in pkgs : q.id = r.pkg_id
                     /\ {<<(CHOOSE q \in pkgs : q.id = r.pkg_id).pkgname, r[kind]>> : r \in vals}
                          = {<<es[w[1]].pkgname, es[w[1]][kind][w[2]]>> : w \in want}

(* C2: a call of PMDB::new that the environment does not disturb, on a      *)
(* store whose version stamp differs from DB_VERSION, returns Ok and leaves *)
(* the current stamp and no repository, package or satellite row.           *)
C2_ResetOnMismatch ==
    [][ ( /\ IsCall("new") /\ lastCall'.fault = 0
          /\ is_created(db) /\ is_current(db, DB_VERSION) = [ok |-> TRUE, v |-> FALSE] )
        => /\ lastCall'.ok
           /\ is_current(db', DB_VERSION) = [ok |-> TRUE, v |-> TRUE]
           /\ \A t \in LocalTables \cup RemoteTables : db'.rows[t] = {} ]_vars

(* C3: a call of insert or update that returns Err, whatever statement      *)
(* failed, leaves the database as it was before the call, and with it       *)
(* everything the read operations return.                                    *)
C3_AtomicWrites ==
    [][ ( (IsCall("insert") \/ IsCall("update")) /\ ~lastCall'.ok )
        => db' = db /\ Readable(db') = Readable(db) ]_vars

(* C3 witness: an update of a stored repository with two entries was        *)
(* interrupted at its eighth statement, after the deletes and the first     *)
(* package insert.                                                           *)
C3_Witness ==
    /\ lastCall.op = "update" /\ ~lastCall.ok /\ lastCall.fault = 8
    /\ lastCall.pkgs = <<EntryB, EntryA>>
    /\ OwnsExactly(db, lastCall.dom, lastCall.key, <<EntryA>>)

(* C4: after an update that returned Ok, the repository owns exactly the    *)
(* rows of the entries passed and its lookup returns the token passed.      *)
C4_ReplaceStoresExactly ==
    (lastCall.op = "update" /\ lastCall.ok) =>
        /\ OwnsExactly(db, lastCall.dom, lastCall.key, lastCall.pkgs)
        /\ get_repository(db, lastCall.dom, lastCall.key)
             = [ok |-> TRUE, repo |-> <<lastCall.tok>>]

(* C4 witness: the first call after the open replaced the two entries of    *)
(* the stored remote repository by one entry and a new token.               *)
C4_Witness ==
    /\ lastCall.op = "update" /\ lastCall.ok /\ nops = 2
    /\ lastCall.dom = "remote" /\ lastCall.key = "https://a/All"
    /\ lastCall.pkgs = <<EntryA>>
    /\ lastCall.tok = [mtime |-> 2, summary_suffix |-> "gz"]

(* C5: an insert whose key is stored returns Err and leaves the database as *)
(* it was; an insert of a key not stored that the environment does not      *)
(* disturb returns Ok, and after an Ok the new repository is looked up with *)
(* the token passed, owns exactly the rows of the entries passed, and the   *)
(* rows of the other repositories are as before.                             *)
C5_InsertUniqueKey ==
    [][ IsCall("insert") =>
          LET c == lastCall'
              stored == RepositoryRows(db, c.dom, c.key) # {}
          IN  /\ stored => ~c.ok /\ db' = db
              /\ (~stored /\ c.fault = 0) => c.ok
              /\ (~stored /\ c.ok) =>
                    /\ OwnsExactly(db', c.dom, c.key, c.pkgs)
                    /\ get_repository(db', c.dom, c.key) = [ok |-> TRUE, repo |-> <<c.tok>>]
                    /\ c.dom = "remote" =>
                          \A r \in RepositoryRows(db', c.dom, c.key) : r.prefix = c.prefix
                    /\ \A t \in AllTables : db.rows[t] \subseteq db'.rows[t] ]_vars

(* C5 witness: an insert that no fault disturbed returned Err, the key      *)
(* being stored with its packages.                                           *)
C5_Witness ==
    /\ lastCall.op = "insert" /\ ~lastCall.ok /\ lastCall.fault = 0
    /\ lastCall.pkgs = <<EntryA>>
    /\ OwnsExactly(db, lastCall.dom, lastCall.key, <<EntryB, EntryA>>)

(* C6: an update that returned Ok and repeats the call before it, an update *)
(* of the same repository with the same token and entries that returned Ok, *)
(* leaves every lookup and every list as that call left them.               *)
C6_ReplaceIdempotent ==
    [][ (IsCall("update") /\ lastCall'.repeat) => Readable(db') = Readable(db) ]_vars

(* C6 witness: an update of two entries was repeated.                       *)
C6_Witness ==
    /\ lastCall.op = "update" /\ lastCall.repeat
    /\ lastCall.pkgs = <<EntryB, EntryA>>
    /\ get_pkgs_by_prefix(db, lastCall.dom, "/opt/pkg").pkgs # <<>>

(* The package rows of domain dom whose repository has the prefix.          *)
RowsOfPrefix(d, dom, prefix) ==
    {r \in d.rows[PkgTable(dom)] :
        \E q \in d.rows[RepositoryTable(dom)] :
            q.id = r.repository_id /\ q.prefix = prefix}

(* C13: in a created store, the list of a domain and a prefix holds one     *)
(* (identifier, comment) pair per package row of that domain whose          *)
(* repository has that prefix, and no other pair, in ascending order of     *)
(* identifier.                                                               *)
C13_ListOrderAndScope ==
    is_created(db) =>
        \A dom \in {"local", "remote"} : \A p \in LocalKeys \cup Prefixes :
            LET l == get_pkgs_by_prefix(db, dom, p)
                rows == RowsOfPrefix(db, dom, p)
            IN  /\ l.ok
                /\ Len(l.pkgs) = Cardinality(rows)
                /\ {l.pkgs[i] : i \in 1..Len(l.pkgs)}
                     = {[pkgname |-> r.pkgname, comment |-> r.comment] : r \in rows}
                /\ \A i, j \in 1..Len(l.pkgs) :
                      i < j => TextLE(l.pkgs[i].pkgname, l.pkgs[j].pkgname)

(* C13 witness: the remote list of /opt/pkg holds two identifiers stored in *)
(* descending order, while another remote prefix and the local domain hold  *)
(* packages too.                                                             *)
C13_Witness ==
    /\ is_created(db)
    /\ get_pkgs_by_prefix(db, "remote", "/opt/pkg").pkgs
         = <<[pkgname |-> <<"a", "-", "1">>, comment |-> <<"a">>],
             [pkgname |-> <<"b", "-", "1">>, comment |-> <<"b">>]>>
    /\ get_pkgs_by_prefix(db, "remote", "/usr/pkg").pkgs # <<>>
    /\ get_pkgs_by_prefix(db, "local", "/opt/pkg").pkgs # <<>>

(* C19: a lookup and a list leave the database as it was, and a lookup      *)
(* returns not found exactly when no row of the repository table of its     *)
(* domain has the key; when a row has it, the token of that row is returned.*)
C19_ReadsArePure ==
    [][ (IsCall("lookup") \/ IsCall("list")) =>
          /\ db' = db
          /\ lastCall'.ok
          /\ IsCall("lookup") =>
                LET rows == {r \in db.rows[RepositoryTable(lastCall'.dom)] :
                                KeyOf(lastCall'.dom, r) = lastCall'.key}
                IN  /\ lastCall'.tok = <<>> <=> rows = {}
                    /\ lastCall'.tok # <<>> =>
                          \E r \in rows : lastCall'.tok[1].mtime = r.mtime
      ]_vars

(* A lookup returned not found for a key no row has while the table of its  *)
(* domain holds the row of another key.                                      *)
C19_Witness ==
    /\ lastCall.op = "lookup" /\ lastCall.ok /\ lastCall.tok = <<>>
    /\ db.rows[RepositoryTable(lastCall.dom)] # {}
    /\ \E dom \in {"local", "remote"} : db.rows[PkgTable(dom)] # {}


(* Every package row of the domain names a repository row of the domain,    *)
(* and every satellite row names a package row of the domain that the same  *)
(* repository owns.                                                          *)
Integrity(d, dom) ==
    /\ \A r \in d.rows[PkgTable(dom)] :
          \E q \in d.rows[RepositoryTable(dom)] : q.id = r.repository_id
    /\ \A k \in 1..Len(SatelliteKinds) :
          \A v \in d.rows[SatelliteTable(dom, SatelliteKinds[k])] :
              \E r \in d.rows[PkgTable(dom)] :
                  r.id = v.pkg_id /\ r.repository_id = v.repository_id

(* C33: referential integrity.  After every insert and every update,        *)
(* whether it returned Ok or Err and whatever calls came before it, every   *)
(* package row names a repository row of its domain and every conflicts,    *)
(* depends, provides and requires row names a package row of the same       *)
(* repository.                                                               *)
C33_ReferentialIntegrity ==
    [][ (IsCall("insert") \/ IsCall("update")) =>
          (Integrity(db', "local") /\ Integrity(db', "remote")) ]_vars

(* An update that replaced the packages of a repository returned Ok after   *)
(* two earlier calls, and both domains hold package and satellite rows.     *)
C33_Witness ==
    /\ lastCall.op = "update" /\ lastCall.ok /\ nops = MaxOps
    /\ lastCall.pkgs = <<EntryA>>
    /\ \A dom \in {"local", "remote"} :
          /\ db.rows[PkgTable(dom)] # {}
          /\ db.rows[SatelliteTable(dom, "requires")] # {}


(* The repository rows of a domain, as (id, key) pairs.                     *)
RepositoryKeys(d, dom) == {<<r.id, KeyOf(dom, r)>> : r \in d.rows[RepositoryTable(dom)]}

(* No two repository rows of the domain have the same key.                  *)
UniqueKeys(d, dom) ==
    \A r, q \in d.rows[RepositoryTable(dom)] : KeyOf(dom, r) = KeyOf(dom, q) => r = q

(* C34: key uniqueness.  After every insert and every update each domain    *)
(* holds at most one repository row per key (the prefix of a local          *)
(* repository, the URL of a remote one), and an update leaves each domain   *)
(* with the repository rows, by id and key, that it had before.             *)
C34_KeyUniqueness ==
    [][ (IsCall("insert") \/ IsCall("update")) =>
          \A dom \in {"local", "remote"} :
              /\ UniqueKeys(db', dom)
              /\ IsCall("update") => RepositoryKeys(db', dom) = RepositoryKeys(db, dom)
      ]_vars

(* An update returned Ok in a domain that holds the rows of two             *)
(* repositories, the second inserted by the call before it.                 *)
C34_Witness ==
    /\ lastCall.op = "update" /\ lastCall.ok /\ nops = MaxOps
    /\ Cardinality(db.rows[RepositoryTable(lastCall.dom)]) = 2
    /\ Cardinality(RepositoryRows(db, lastCall.dom, lastCall.key)) = 1


(* The tables of a domain.                                                   *)
TablesOf(dom) == IF dom = "local" THEN LocalTables ELSE RemoteTables

(* What the repository rows of domain dom other than the one with the key   *)
(* hold and own: the rows themselves, and the package and satellite rows    *)
(* tied to them.                                                             *)
OthersOf(d, dom, key) ==
    LET others == {r \in d.rows[RepositoryTable(dom)] : KeyOf(dom, r) # key}
        ids == {r.id : r \in others}
    IN  [repos |-> others,
         rows |-> [t \in TablesOf(dom) \ {RepositoryTable(dom)} |->
                      {r \in d.rows[t] : r.repository_id \in ids}]]

(* C35: write isolation.  An insert or an update of one repository, Ok or   *)
(* Err, leaves as they were the rows (token included) of every other        *)
(* repository of its domain with the package and satellite rows they own,   *)
(* and every row of every table of the other domain.                        *)
C35_WriteIsolation ==
    [][ (IsCall("insert") \/ IsCall("update")) =>
          LET c == lastCall'
              other == IF c.dom = "local" THEN "remote" ELSE "local"
          IN  /\ OthersOf(db', c.dom, c.key) = OthersOf(db, c.dom, c.key)
              /\ \A t \in TablesOf(other) : db'.rows[t] = db.rows[t]
      ]_vars

(* An update replaced the packages and the token of one of two repositories *)
(* of a domain; the other one owns packages, and so does a repository of    *)
(* the other domain.                                                         *)
C35_Witness ==
    /\ lastCall.op = "update" /\ lastCall.ok /\ lastCall.pkgs = <<EntryA>>
    /\ OthersOf(db, lastCall.dom, lastCall.key).repos # {}
    /\ OthersOf(db, lastCall.dom, lastCall.key).rows[PkgTable(lastCall.dom)] # {}
    /\ db.rows[PkgTable(IF lastCall.dom = "local" THEN "remote" ELSE "local")] # {}


(* C36: an update whose key no repository row of its domain has returns Err *)
(* and leaves the database as it was: no repository row is created and no   *)
(* package or satellite row is inserted or deleted.                          *)
C36_ReplaceOfMissingKeyFails ==
    [][ ( /\ IsCall("update")
          /\ \A r \in db.rows[RepositoryTable(lastCall'.dom)] :
                KeyOf(lastCall'.dom, r) # lastCall'.key )
        => /\ ~lastCall'.ok
           /\ \A t \in AllTables : db'.rows[t] = db.rows[t]
           /\ db'.tables = db.tables ]_vars

(* An update with packages, which no fault disturbed, returned Err: its     *)
(* domain holds the row and the packages of another repository and no row   *)
(* of the key.                                                               *)
C36_Witness ==
    /\ lastCall.op = "update" /\ ~lastCall.ok /\ lastCall.fault = 0
    /\ lastCall.pkgs = <<EntryB, EntryA>>
    /\ db.rows[RepositoryTable(lastCall.dom)] # {}
    /\ db.rows[PkgTable(lastCall.dom)] # {}
    /\ \A r \in db.rows[RepositoryTable(lastCall.dom)] : KeyOf(lastCall.dom, r) # lastCall.key


(* The (identifier, comment) pairs of the entries es.                       *)
ListedPairs(es) == {[pkgname |-> es[i].pkgname, comment |-> es[i].comment] : i \in 1..Len(es)}

(* C37: an update of a remote repository that returned Ok changed, in the   *)
(* repository's row, the timestamp and the suffix only: the row has the     *)
(* prefix, the URL and the id it had, so the packages passed are listed     *)
(* under the prefix the row had before the call, and the list of every      *)
(* other prefix is what it was before the call.                              *)
C37_ReplaceKeepsPrefix ==
    [][ (IsCall("update") /\ lastCall'.dom = "remote" /\ lastCall'.ok) =>
          LET c == lastCall'
              before == {r \in db.rows["remote_repository"] : r.url = c.key}
              after == {r \in db'.rows["remote_repository"] : r.url = c.key}
          IN  /\ Cardinality(before) = 1 /\ Cardinality(after) = 1
              /\ \A r \in before : \A q \in after :
                    /\ q.prefix = r.prefix /\ q.id = r.id
                    /\ q.mtime = c.tok.mtime /\ q.summary_suffix = c.tok.summary_suffix
                    /\ LET l == get_pkgs_by_prefix(db', "remote", r.prefix)
                       IN  ListedPairs(c.pkgs) \subseteq {l.pkgs[i] : i \in 1..Len(l.pkgs)}
                    /\ \A p \in Prefixes \ {r.prefix} :
                          get_pkgs_by_prefix(db', "remote", p)
                            = get_pkgs_by_prefix(db, "remote", p)
      ]_vars

(* A remote repository inserted under /usr/pkg was updated with a new token *)
(* and a package: the package is listed under /usr/pkg, and the list of     *)
(* /opt/pkg holds the packages of the other repository.                     *)
C37_Witness ==
    /\ lastCall.op = "update" /\ lastCall.ok /\ lastCall.dom = "remote"
    /\ lastCall.pkgs = <<EntryA>>
    /\ \E r \in db.rows["remote_repository"] :
          /\ r.url = lastCall.key /\ r.prefix = "/usr/pkg"
          /\ r.mtime = lastCall.tok.mtime
    /\ get_pkgs_by_prefix(db, "remote", "/usr/pkg").pkgs
         = <<[pkgname |-> EntryA.pkgname, comment |-> EntryA.comment]>>
    /\ Len(get_pkgs_by_prefix(db, "remote", "/opt/pkg").pkgs) = 2


(* The stamps the metadata table of d holds.                                 *)
Stamps(d) == {r.version : r \in d.rows["metadata"]}

(* C38: a call of PMDB::new on a store whose stamp is DB_VERSION leaves the *)
(* database as it was, the tables, every row and the stamp, however many    *)
(* opens came before it; and after every call of PMDB::new that returned Ok *)
(* the store is created and its stamp is DB_VERSION.                         *)
C38_OpenOfCurrentStore ==
    [][ IsCall("new") =>
          /\ ("metadata" \in db.tables /\ Stamps(db) = {DB_VERSION}) =>
                /\ db'.tables = db.tables
                /\ \A t \in AllTables : db'.rows[t] = db.rows[t]
          /\ lastCall'.ok =>
                ("metadata" \in db'.tables /\ Stamps(db') = {DB_VERSION})
      ]_vars

(* The store an earlier process of this release populated has been opened   *)
(* as many times as the model allows, the last open returned Ok, and it     *)
(* holds its repositories, packages and satellite rows.                      *)
C38_Witness ==
    /\ lastCall.op = "new" /\ lastCall.ok /\ lastCall.repeat /\ nops = MaxOps
    /\ db = Populated(DB_VERSION)
    /\ db.rows["remote_pkg"] # {} /\ db.rows["local_requires"] # {}

-----------------------------------------------------------------------------
(* Properties of the orchestrator.                                           *)

(* The step is the processing of the target the run is at.                  *)
ProcessesTarget ==
    /\ result = "running" /\ runs' = runs
    /\ target \in Targets
    /\ log'[target].state # "pending"

(* lookup of the target in database d: <<>> or <<token>>.                    *)
StoredToken(d, t) ==
    IF t = 0 THEN get_repository(d, "local", PkgDbDir).repo
    ELSE get_repository(d, "remote", Repos[t].url).repo

(* C7: when the token a process observes for a target, local or remote, is  *)
(* the token the store holds for it, the process begins no ingestion, calls *)
(* neither insert nor update, and leaves the database as it was.            *)
C7_FreshnessShortCircuit ==
    [][ ( /\ ProcessesTarget
          /\ log'[target].observed # <<>>
          /\ log'[target].observed = StoredToken(db, target) )
        => /\ ~log'[target].slurped
           /\ log'[target].wrote = "none"
           /\ db' = db ]_vars

(* C7 witness: a process found the local prefix and the first repository    *)
(* up to date.                                                               *)
C7_Witness ==
    /\ log[0].state = "up_to_date" /\ log[0].observed = StoredToken(db, 0)
    /\ log[1].state = "up_to_date" /\ log[1].observed = StoredToken(db, 1)

(* The process got a document of repository i with its timestamp.           *)
Observed(i) == log[i].state # "pending" /\ log[i].observed # <<>>

(* The process took the up to date branch for target i.                      *)
UpToDate(i) ==
    log[i].state = "up_to_date" /\ log[i].wrote = "none" /\ ~log[i].slurped

(* C8 as stated: when the process before left repository i stored and this  *)
(* process observes the same last-modified timestamp, it takes the up to    *)
(* date branch and calls no store write.                                     *)
C8_SameTimestamp ==
    \A i \in 1..Len(Repos) :
        ( /\ Stored(prev[i]) /\ Observed(i)
          /\ log[i].observed[1].mtime = prev[i].observed[1].mtime )
        => UpToDate(i)

(* C8 amended: when the process before left repository i stored and this    *)
(* process observes the same last-modified timestamp under the same suffix, *)
(* it takes the up to date branch and calls no store write.                 *)
C8_RerunStability ==
    \A i \in 1..Len(Repos) :
        ( /\ Stored(prev[i]) /\ Observed(i)
          /\ log[i].observed = prev[i].observed )
        => UpToDate(i)

(* C8 witness: the second process found up to date the repository the first *)
(* had created or refreshed.                                                 *)
C8_Witness ==
    /\ runs = 2
    /\ prev[1].state \in {"created", "refreshed"}
    /\ log[1].observed = prev[1].observed
    /\ UpToDate(1)

(* C9: a run that began with the local prefix and has returned, Ok or Err,  *)
(* has processed every configured target.                                    *)
C9_LaterTargetsProcessed ==
    (result \in {"Ok", "Err"} /\ log[0].state # "pending") =>
        \A t \in Targets : log[t].state # "pending"

(* The list of the entries es, which are in ascending order.                *)
ListOf(es) ==
    [i \in 1..Len(es) |-> [pkgname |-> es[i].pkgname, comment |-> es[i].comment]]

(* C14: after a process has stored the local prefix, the lookup of the      *)
(* prefix path finds the repository with the token observed, and the local  *)
(* list of the prefix path holds the entries of the enumerator's document.  *)
C14_LocalKeyedByPrefix ==
    log[0].state \in {"created", "refreshed"} =>
        /\ get_repository(db, "local", CfgPrefix).repo = log[0].observed
        /\ get_pkgs_by_prefix(db, "local", CfgPrefix).pkgs
             = ListOf(write(<<>>, <<>>, SummaryDoc).entries)

(* A request the server answered with a success status: the suffix is       *)
(* there to retrieve.                                                        *)
Retrievable(q) == q.answer \in {"no_lm", "bad_lm", "ok"}

(* C15: for a repository the suffixes are requested in the order of its     *)
(* candidate list, no suffix is requested after one the server answered     *)
(* with a success status, and the token compared with the store carries     *)
(* that suffix.                                                              *)
C15_FirstRetrievableWins ==
    \A t \in 1..Len(Repos) :
        LET q == log[t].requested
            exts == get_summary_extensions(Repos[t])
        IN  /\ Len(q) <= Len(exts)
            /\ \A i \in 1..Len(q) : q[i].suffix = exts[i]
            /\ \A i \in 1..Len(q) :
                  Retrievable(q[i]) =>
                      /\ i = Len(q)
                      /\ log[t].observed # <<>> =>
                            log[t].observed[1].summary_suffix = q[i].suffix

(* C18: after the local target was stored, a package row of the repository  *)
(* it was stored under has automatic = 1 exactly when the marker of its     *)
(* package existed, and 0 otherwise.                                         *)
C18_AutomaticFromMarker ==
    log[0].state \in {"created", "refreshed"} =>
        \A r \in RowsOfPrefix(db, "local", PkgDbDir) :
            /\ r.automatic \in {0, 1}
            /\ r.automatic = 1 <=> r.pkgname \in log[0].marked

(* The process aborted while it ingested the document of target t, and the  *)
(* document was no text.                                                     *)
DecodingAborted(entry) == entry.state = "panicked" /\ entry.slurped /\ ~entry.text

(* C25: when the processing of a target aborts on a document that is no     *)
(* text, the database is left as it was: the rows of every repository, the  *)
(* target's packages and token included.                                     *)
C25_DecodeFailsBeforeWrite ==
    [][ (ProcessesTarget /\ DecodingAborted(log'[target])) => db' = db ]_vars

(* A process aborted on a document that was no text for a repository the    *)
(* store holds under another token, with its packages.                       *)
C25_Witness ==
    \E t \in 1..Len(Repos) :
        /\ DecodingAborted(log[t])
        /\ StoredToken(db, t) # <<>>
        /\ StoredToken(db, t) # log[t].observed
        /\ RowsOfPrefix(db, "remote", Repos[t].prefix) # {}

(* The token stored and the token observed are equal in both components:    *)
(* seconds and nanoseconds for the local target, timestamp and suffix for a *)
(* repository.                                                               *)
SameToken(t, stored, observed) ==
    /\ stored.mtime = observed.mtime
    /\ IF t = 0 THEN stored.ntime = observed.ntime
       ELSE stored.summary_suffix = observed.summary_suffix

(* C26: when a process observes a token for a target the store holds, it    *)
(* finds the target up to date iff the two tokens are equal in both         *)
(* components; when they differ, in one component or both, it begins the    *)
(* ingestion of a refresh.                                                   *)
C26_FreshnessIsEquality ==
    [][ ( /\ ProcessesTarget
          /\ log'[target].observed # <<>>
          /\ StoredToken(db, target) # <<>> )
        => /\ log'[target].state = "up_to_date"
                <=> SameToken(target, StoredToken(db, target)[1], log'[target].observed[1])
           /\ log'[target].state # "up_to_date" => log'[target].slurped
      ]_vars

(* A process refreshed a repository whose stored token had the timestamp    *)
(* observed and another suffix.                                              *)
C26_Witness ==
    \E t \in 1..Len(Repos) :
        /\ runs = 2 /\ Stored(prev[t])
        /\ log[t].state = "refreshed" /\ log[t].wrote = "update"
        /\ log[t].observed[1].mtime = prev[t].observed[1].mtime
        /\ log[t].observed[1].summary_suffix # prev[t].observed[1].summary_suffix

(* The rows of target t in its repository table of database d: the lookup   *)
(* finds the repository iff there is one.                                    *)
TargetRows(d, t) ==
    IF t = 0 THEN RepositoryRows(d, "local", PkgDbDir)
    ELSE RepositoryRows(d, "remote", Repos[t].url)

(* C27: a process calls insert for a target only when the store holds no    *)
(* row of its key, calls update only when the store holds its row with a    *)
(* token other than the one observed, and calls neither when the store      *)
(* holds its row with the token observed.                                    *)
C27_WriteChosenFromLookup ==
    [][ ProcessesTarget =>
          /\ log'[target].wrote = "insert" => TargetRows(db, target) = {}
          /\ log'[target].wrote = "update" =>
                /\ TargetRows(db, target) # {}
                /\ StoredToken(db, target) # log'[target].observed
          /\ ( /\ TargetRows(db, target) # {}
               /\ StoredToken(db, target) = log'[target].observed )
             => log'[target].wrote = "none"
      ]_vars

(* One process created a target the store did not hold, refreshed another   *)
(* that it held under another token, and found a third up to date.          *)
C27_Witness ==
    \E t, u, v \in Targets :
        /\ log[t].wrote = "insert" /\ log[t].state = "created"
        /\ log[u].wrote = "update" /\ log[u].state = "refreshed"
        /\ log[v].wrote = "none" /\ log[v].state = "up_to_date"

(* C28: the processing of a repository that has ended without failure       *)
(* either found the repository up to date, or left in the store a row of    *)
(* the repository whose token is the (timestamp, suffix) it observed.       *)
C28_EndsStoredOrUpToDate ==
    \A t \in 1..Len(Repos) :
        log[t].state \notin {"pending", "failed", "panicked"} =>
            \/ log[t].state = "up_to_date"
            \/ /\ log[t].observed # <<>>
               /\ StoredToken(db, t) = log[t].observed

(* The candidate suffixes of a repository as configured: its extension      *)
(* alone, or xz, bz2, gz.                                                    *)
Candidates(repo) ==
    IF repo.summary_extension = <<>> THEN <<"xz", "bz2", "gz">>
    ELSE repo.summary_extension

(* The suffixes a process requested for repository t, in order.              *)
SuffixesRequested(t) == [i \in 1..Len(log[t].requested) |-> log[t].requested[i].suffix]

(* C29: the suffixes requested for a repository are the first of its        *)
(* candidates in their order, its configured extension alone or xz, bz2, gz;*)
(* all of them when none gave a document.                                    *)
C29_CandidateSuffixes ==
    \A t \in 1..Len(Repos) :
        /\ Len(SuffixesRequested(t)) <= Len(Candidates(Repos[t]))
        /\ SuffixesRequested(t)
             = SubSeq(Candidates(Repos[t]), 1, Len(SuffixesRequested(t)))
        /\ log[t].state = "no_summary" => SuffixesRequested(t) = Candidates(Repos[t])

(* For the repository without a configured extension xz, bz2 and gz were    *)
(* requested in that order, for the one configured with gz only gz.         *)
C29_Witness ==
    /\ Repos[1].summary_extension = <<>>
    /\ SuffixesRequested(1) = <<"xz", "bz2", "gz">>
    /\ Repos[2].summary_extension = <<"gz">>
    /\ SuffixesRequested(2) = <<"gz">>

=============================================================================
